---- MODULE Spec2Model ----
(***************************************************************************)
(* Model of export-sessions.js: the session builder, the incremental       *)
(* watermark store (export-state.json) and the export orchestrator.        *)
(*                                                                         *)
(* Three specifications share the variables:                               *)
(*   SpecSessions   the session grouping applied to bounded event lists    *)
(*   SpecWatermark  getLastExportTime / saveLastExportTime on a state file *)
(*   SpecExport     export invocations over a growing history file         *)
(***************************************************************************)
EXTENDS Integers, Sequences, FiniteSets, TLC

VARIABLES
    entries,      \* session builder: the filtered entries handed to the grouping
    sessions,     \* session builder: the sessions it returned
    built,        \* session builder: whether the grouping has run
    stateFile,    \* ~/.claude/export-state.json
    lastOp,       \* watermark store: the last call made on it
    history,      \* ~/.claude/history.jsonl
    clock,        \* Date.now()
    config,       \* the loaded configuration (export profiles)
    inv,          \* the running invocation: its options, locals and position
    reports,      \* the report files written, by output target
    arg,          \* function specifications: the arguments of the call under study
    ret,          \* function specifications: what the call returned
    writers       \* overlapping invocations: each one's saveLastExportTime call

vars == <<entries, sessions, built, stateFile, lastOp, history, clock, config, inv, reports,
          arg, ret, writers>>

(***************************************************************************)
(* Bounds of the model.                                                    *)
(***************************************************************************)
MaxEvents == 3      \* entries handed to the session builder
MaxStamp == 2       \* watermark store: timestamps written are 1..MaxStamp
MaxClock == 2       \* export runs: the clock takes MaxClock values, one Tick apart
MaxLog == 2         \* export runs: lines appended to the history file
MaxRuns == 2        \* export runs: invocations started

(***************************************************************************)
(* Values.                                                                 *)
(***************************************************************************)
\* JavaScript null (no watermark, no open session value); never a timestamp.
Null == -1

SESSION_GAP_MS == 30 * 60 * 1000

\* The range of a sequence.
Range(s) == {s[i] : i \in DOMAIN s}

(***************************************************************************)
(* Project paths.  A path is its directory and its final segment; letter   *)
(* case is the only thing normalisation changes on these paths.            *)
(***************************************************************************)
toLowerCase(s) ==
    CASE s = "App" -> "app"
      [] s = "Lib" -> "lib"
      [] s = "/W" -> "/w"
      [] OTHER -> s

Path(dir, base) == [dir |-> dir, base |-> base]

normalizeProjectPath(projectPath) ==
    [dir |-> toLowerCase(projectPath.dir), base |-> toLowerCase(projectPath.base)]

getRepositoryName(projectPath) == projectPath.base

\* Two spellings of one repository, a second repository of the same name in
\* another directory, and a repository of another name.
Paths == {Path("/w", "app"), Path("/W", "App"), Path("/x", "app"), Path("/w", "lib")}

(***************************************************************************)
(* Session builder (runExport lines 616-653, the same code again in the    *)
(* legacy single-export mode, lines 896-935).                              *)
(***************************************************************************)
Entry(ts, project, message) == [timestamp |-> ts, project |-> project, message |-> message]

\* filteredEntries.sort((a, b) => a.timestamp - b.timestamp): Array.prototype.sort
\* is stable, so entries of equal timestamp keep their order.
RECURSIVE InsertEntry(_, _)
InsertEntry(sorted, e) ==
    IF sorted = <<>> THEN <<e>>
    ELSE IF sorted[Len(sorted)].timestamp - e.timestamp > 0
         THEN Append(InsertEntry(SubSeq(sorted, 1, Len(sorted) - 1), e), sorted[Len(sorted)])
         ELSE Append(sorted, e)

RECURSIVE SortEntries(_)
SortEntries(es) ==
    IF es = <<>> THEN <<>>
    ELSE InsertEntry(SortEntries(SubSeq(es, 1, Len(es) - 1)), es[Len(es)])

NewSession(entry) ==
    [project |-> entry.project,
     repositoryName |-> getRepositoryName(entry.project),
     startTime |-> entry.timestamp,
     endTime |-> entry.timestamp,
     messages |-> <<entry.message>>]

\* Mutant: the gap test dropped, only a change of context ends a session.
StartsNewSessionContextOnly(currentSession, entry) ==
    normalizeProjectPath(entry.project) # normalizeProjectPath(currentSession.project)

\* Mutant: the gap compared with >= instead of >.
StartsNewSessionAtThreshold(currentSession, entry) ==
    \/ entry.timestamp - currentSession.endTime >= SESSION_GAP_MS
    \/ normalizeProjectPath(entry.project) # normalizeProjectPath(currentSession.project)

\* Mutant: the context compared is the repository name, not the path.
StartsNewSessionByRepositoryName(currentSession, entry) ==
    \/ entry.timestamp - currentSession.endTime > SESSION_GAP_MS
    \/ toLowerCase(getRepositoryName(entry.project))
          # toLowerCase(getRepositoryName(currentSession.project))

\* The boundary test of the loop: a gap above the threshold, or another context.
StartsNewSession(currentSession, entry) ==
    \/ entry.timestamp - currentSession.endTime > SESSION_GAP_MS
    \/ normalizeProjectPath(entry.project) # normalizeProjectPath(currentSession.project)

\* One iteration of the loop.  acc.current is <<>> for currentSession = null.
SessionStep(acc, entry) ==
    IF acc.current = <<>>
    THEN [sessions |-> acc.sessions, current |-> <<NewSession(entry)>>]
    ELSE IF StartsNewSession(acc.current[1], entry)
         THEN [sessions |-> Append(acc.sessions, acc.current[1]),
               current |-> <<NewSession(entry)>>]
         ELSE [sessions |-> acc.sessions,
               current |-> <<[acc.current[1] EXCEPT
                                !.endTime = entry.timestamp,
                                !.messages = Append(@, entry.message)]>>]

RECURSIVE GroupLoop(_)
GroupLoop(sorted) ==
    IF sorted = <<>> THEN [sessions |-> <<>>, current |-> <<>>]
    ELSE SessionStep(GroupLoop(SubSeq(sorted, 1, Len(sorted) - 1)), sorted[Len(sorted)])

\* Variant: the session still open after the loop is not pushed.
GroupEntriesWithoutLastPush(sorted) ==
    LET acc == GroupLoop(sorted)
    IN  acc.sessions

\* The loop and the push of the session still open after it.
GroupEntries(sorted) ==
    LET acc == GroupLoop(sorted)
    IN  acc.sessions \o acc.current

\* sessions.sort((a, b) => b.startTime - a.startTime), stable.
RECURSIVE InsertSession(_, _)
InsertSession(sorted, s) ==
    IF sorted = <<>> THEN <<s>>
    ELSE IF s.startTime - sorted[Len(sorted)].startTime > 0
         THEN Append(InsertSession(SubSeq(sorted, 1, Len(sorted) - 1), s), sorted[Len(sorted)])
         ELSE Append(sorted, s)

\* Mutant: the final sort left out.
SortSessionsUnsorted(ss) == ss

RECURSIVE SortSessions(_)
SortSessions(ss) ==
    IF ss = <<>> THEN <<>>
    ELSE InsertSession(SortSessions(SubSeq(ss, 1, Len(ss) - 1)), ss[Len(ss)])

BuildSessions(filteredEntries) == SortSessions(GroupEntries(SortEntries(filteredEntries)))

(***************************************************************************)
(* Incremental watermark store.  The state file is absent, holds the       *)
(* legacy form {lastExportTime: n}, the keyed form {lastExportTime: {k:    *)
(* n}}, a JSON object whose lastExportTime is neither ("other": missing,   *)
(* null, a string), or text JSON.parse rejects ("corrupt").                *)
(***************************************************************************)
EmptyMap == <<>>

AbsentFile == [kind |-> "absent", num |-> Null, map |-> EmptyMap]
CorruptFile == [kind |-> "corrupt", num |-> Null, map |-> EmptyMap]
OtherFile == [kind |-> "other", num |-> Null, map |-> EmptyMap]
LegacyFile(n) == [kind |-> "legacy", num |-> n, map |-> EmptyMap]
KeyedFile(m) == [kind |-> "keyed", num |-> Null, map |-> m]

\* JavaScript truthiness of a number-or-null value.
Truthy(v) == v # Null /\ v # 0

\* state.lastExportTime[repoKey] (undefined, here Null, when there is no entry)
Lookup(m, k) == IF k \in DOMAIN m THEN m[k] ELSE Null

\* a || b || null
OrElse(a, b) == IF Truthy(a) THEN a ELSE IF Truthy(b) THEN b ELSE Null

\* Mutant: a key without an entry reads as null, '_all' is not consulted.
getLastExportTimeOwnKeyOnly(file, repoKey) ==
    CASE file.kind = "absent" -> Null
      [] file.kind = "corrupt" -> Null
      [] file.kind = "legacy" -> file.num
      [] file.kind = "keyed" -> OrElse(Lookup(file.map, repoKey), Null)
      [] OTHER -> Null

\* Mutant: a state file that is missing or cannot be parsed reads as a
\* watermark at the session gap.
getLastExportTimeFailureIsWatermark(file, repoKey) ==
    CASE file.kind = "absent" -> SESSION_GAP_MS
      [] file.kind = "corrupt" -> SESSION_GAP_MS
      [] file.kind = "legacy" -> file.num
      [] file.kind = "keyed" -> OrElse(Lookup(file.map, repoKey), Lookup(file.map, "_all"))
      [] OTHER -> Null

getLastExportTime(file, repoKey) ==
    CASE file.kind = "absent" -> Null
      [] file.kind = "corrupt" -> Null        \* JSON.parse throws, caught
      [] file.kind = "legacy" -> file.num
      [] file.kind = "keyed" -> OrElse(Lookup(file.map, repoKey), Lookup(file.map, "_all"))
      [] OTHER -> Null

\* state.lastExportTime[repoKey] = timestamp on the map m
SetKey(m, k, v) == [x \in DOMAIN m \cup {k} |-> IF x = k THEN v ELSE m[x]]

\* Mutant: the legacy value is dropped instead of migrated to '_all'.
LoadedMapNoMigration(file) ==
    CASE file.kind = "keyed" -> file.map
      [] OTHER -> EmptyMap

\* The map saveLastExportTime starts from, before it sets its key.
LoadedMap(file) ==
    CASE file.kind = "legacy" -> [x \in {"_all"} |-> file.num]
      [] file.kind = "keyed" -> file.map
      [] OTHER -> EmptyMap

\* Whether saveLastExportTime reaches the end of its try block: JSON.parse of
\* the existing file does not throw and fs.writeFileSync succeeds.
SaveSucceeds(file, writable) == file.kind # "corrupt" /\ writable

\* Mutant: the read value is not replaced when the key already has an entry.
saveLastExportTimeKeepOld(file, repoKey, timestamp, writable) ==
    IF SaveSucceeds(file, writable)
    THEN KeyedFile(IF repoKey \in DOMAIN LoadedMap(file)
                   THEN LoadedMap(file)
                   ELSE SetKey(LoadedMap(file), repoKey, timestamp))
    ELSE file

\* Mutant: the state is rebuilt from the written key alone.
saveLastExportTimeOverwrite(file, repoKey, timestamp, writable) ==
    IF SaveSucceeds(file, writable)
    THEN KeyedFile(SetKey(EmptyMap, repoKey, timestamp))
    ELSE file

\* Mutant: every scope is saved under the global key.
saveLastExportTimeGlobalKey(file, repoKey, timestamp, writable) ==
    IF SaveSucceeds(file, writable)
    THEN KeyedFile(SetKey(LoadedMap(file), "_all", timestamp))
    ELSE file

\* Mutant: a failed write leaves the state file empty.
saveLastExportTimeTruncating(file, repoKey, timestamp, writable) ==
    IF SaveSucceeds(file, writable)
    THEN KeyedFile(SetKey(LoadedMap(file), repoKey, timestamp))
    ELSE AbsentFile

saveLastExportTime(file, repoKey, timestamp, writable) ==
    IF SaveSucceeds(file, writable)
    THEN KeyedFile(SetKey(LoadedMap(file), repoKey, timestamp))
    ELSE file

(***************************************************************************)
(* Event parser and repository filters.                                    *)
(***************************************************************************)
\* --repo not given (options.repo === null).
NoRepo == ""

\* A line without a project field (entry.project undefined or empty).
NoProject == [dir |-> "", base |-> ""]

\* JavaScript values of a display field: a string, a number (text is its
\* decimal rendering, String(n)), or undefined for a missing field.
Str(s) == [type |-> "string", text |-> s]

Num(digits) == [type |-> "number", text |-> digits]

Undefined == [type |-> "undefined", text |-> ""]

\* Truthiness of such a value: '', 0 and undefined are falsy.
JsTruthy(v) ==
    \/ v.type = "string" /\ v.text # ""
    \/ v.type = "number" /\ v.text # "0"

\* message: entry.display || ''
MessageOf(display) == IF JsTruthy(display) THEN display ELSE Str("")

\* A line of the history file that JSON.parse accepts as an object; a missing
\* timestamp is Null, a missing project NoProject, a missing display Undefined.
Line(ts, project, display) ==
    [json |-> TRUE, timestamp |-> ts, project |-> project, display |-> display]

\* A line on which JSON.parse (or the field access on its result) throws.
InvalidLine ==
    [json |-> FALSE, timestamp |-> Null, project |-> NoProject, display |-> Undefined]

\* Mutant: an entry stamped exactly at the watermark is kept.
KeepsLineAtWatermark(line, from, to, lastExportTime) ==
    /\ line.json
    /\ Truthy(line.timestamp)
    /\ line.project # NoProject
    /\ ~(from # Null /\ line.timestamp < from)
    /\ ~(to # Null /\ line.timestamp > to)
    /\ ~(Truthy(lastExportTime) /\ line.timestamp < lastExportTime)

\* The parse loop of runExport (lines 572-593) and of the legacy mode (lines
\* 844-866): a line is kept when it parses, timestamp and project are truthy
\* and it passes the date and watermark filters.  from and to are Date
\* objects, lastExportTime a number; each is Null when not given.
KeepsLine(line, from, to, lastExportTime) ==
    /\ line.json
    /\ Truthy(line.timestamp)
    /\ line.project # NoProject
    /\ ~(from # Null /\ line.timestamp < from)
    /\ ~(to # Null /\ line.timestamp > to)
    /\ ~(Truthy(lastExportTime) /\ line.timestamp <= lastExportTime)

\* Mutant: a line that does not parse ends the loop and discards what was read.
RECURSIVE ParseEntriesAborting(_, _, _, _)
ParseEntriesAborting(lines, from, to, lastExportTime) ==
    IF lines = <<>> THEN <<>>
    ELSE LET rest == ParseEntriesAborting(SubSeq(lines, 1, Len(lines) - 1),
                                          from, to, lastExportTime)
             line == lines[Len(lines)]
         IN  IF ~line.json THEN <<>>
             ELSE IF KeepsLine(line, from, to, lastExportTime)
             THEN Append(rest, Entry(line.timestamp, line.project, MessageOf(line.display)))
             ELSE rest

RECURSIVE ParseEntries(_, _, _, _)
ParseEntries(lines, from, to, lastExportTime) ==
    IF lines = <<>> THEN <<>>
    ELSE LET rest == ParseEntries(SubSeq(lines, 1, Len(lines) - 1), from, to, lastExportTime)
             line == lines[Len(lines)]
         IN  IF KeepsLine(line, from, to, lastExportTime)
             THEN Append(rest, Entry(line.timestamp, line.project, MessageOf(line.display)))
             ELSE rest

RECURSIVE FilterByPredicate(_, _)
FilterByPredicate(es, keep) ==
    IF es = <<>> THEN <<>>
    ELSE LET rest == FilterByPredicate(SubSeq(es, 1, Len(es) - 1), keep)
         IN  IF es[Len(es)] \in keep THEN Append(rest, es[Len(es)]) ELSE rest

\* runExport's repository filter (lines 595-614).  repositories is <<>> for null.
FilterRunExport(es, all, repositories, repo) ==
    IF all /\ repositories = <<>> THEN es
    ELSE IF Len(repositories) > 0
    THEN LET repoSet == {toLowerCase(r) : r \in Range(repositories)}
         IN  FilterByPredicate(es,
                {e \in Range(es) : toLowerCase(getRepositoryName(e.project)) \in repoSet})
    ELSE IF repo # NoRepo
    THEN FilterByPredicate(es,
            {e \in Range(es) : toLowerCase(getRepositoryName(e.project)) = toLowerCase(repo)})
    ELSE es

\* The legacy mode's filter (lines 880-892).
FilterLegacy(es, all, repo, project) ==
    IF all THEN es
    ELSE IF repo # NoRepo
    THEN FilterByPredicate(es,
            {e \in Range(es) : toLowerCase(getRepositoryName(e.project)) = toLowerCase(repo)})
    ELSE FilterByPredicate(es,
            {e \in Range(es) : normalizeProjectPath(e.project) = normalizeProjectPath(project)})

\* const repoKey = options.all ? '_all' : (options.repo || getRepositoryName(options.project))
repoKey(all, repo, project) ==
    IF all THEN "_all" ELSE IF repo # NoRepo THEN repo ELSE getRepositoryName(project)

\* stateKey: `profile:${profileName}`
ProfileKey(name) ==
    CASE name = "a" -> "profile:a"
      [] name = "b" -> "profile:b"
      [] OTHER -> "profile:?"

(***************************************************************************)
(* Strings of message text, character by character.                        *)
(***************************************************************************)
CharAt(s, i) == SubSeq(s, i, i)

UpperLetters == "ABCDEFGHIJKLMNOPQRSTUVWXYZ"

LowerLetters == "abcdefghijklmnopqrstuvwxyz"

Digits == "0123456789"

\* The position of character c in alphabet, 0 when it is not there.
IndexIn(alphabet, c) ==
    IF \E i \in 1..Len(alphabet) : CharAt(alphabet, i) = c
    THEN CHOOSE i \in 1..Len(alphabet) : CharAt(alphabet, i) = c
    ELSE 0

LowerChar(c) ==
    IF IndexIn(UpperLetters, c) = 0 THEN c ELSE CharAt(LowerLetters, IndexIn(UpperLetters, c))

UpperChar(c) ==
    IF IndexIn(LowerLetters, c) = 0 THEN c ELSE CharAt(UpperLetters, IndexIn(LowerLetters, c))

\* String.prototype.toLowerCase on message text.
\* Character by character, the positions lo..hi halved at each step.
RECURSIVE LowerCaseBetween(_, _, _)
LowerCaseBetween(s, lo, hi) ==
    IF lo > hi THEN ""
    ELSE IF lo = hi THEN LowerChar(CharAt(s, lo))
    ELSE LET mid == (lo + hi) \div 2
         IN  LowerCaseBetween(s, lo, mid) \o LowerCaseBetween(s, mid + 1, hi)

LowerCase(s) == LowerCaseBetween(s, 1, Len(s))

\* \s of a regular expression, and what trim() removes.
IsSpace(c) == c \in {" ", "\t", "\n", "\r"}

\* \w of a regular expression.
IsWordChar(c) ==
    \/ IndexIn(LowerLetters, c) # 0
    \/ IndexIn(UpperLetters, c) # 0
    \/ IndexIn(Digits, c) # 0
    \/ c = "_"

\* The positions of s that hold no white space.
Inked(s) == {i \in 1..Len(s) : ~IsSpace(CharAt(s, i))}

TrimStart(s) ==
    IF Inked(s) = {} THEN ""
    ELSE SubSeq(s, CHOOSE i \in Inked(s) : \A j \in Inked(s) : i <= j, Len(s))

TrimEnd(s) ==
    IF Inked(s) = {} THEN ""
    ELSE SubSeq(s, 1, CHOOSE i \in Inked(s) : \A j \in Inked(s) : j <= i)

\* String.prototype.trim
Trim(s) == TrimEnd(TrimStart(s))

\* Array.prototype.join on a sequence of strings.
RECURSIVE Join(_, _)
Join(strings, sep) ==
    IF strings = <<>> THEN ""
    ELSE IF Len(strings) = 1 THEN strings[1]
    ELSE Join(SubSeq(strings, 1, Len(strings) - 1), sep) \o sep \o strings[Len(strings)]

\* \b: between positions k and k + 1 exactly one side is a word character.
IsWordAt(text, k) == k \in 1..Len(text) /\ IsWordChar(CharAt(text, k))

Boundary(text, k) == IsWordAt(text, k) # IsWordAt(text, k + 1)

\* /\b(a1|a2|...)\b/.test(text): some alternative occurs between two word
\* boundaries.
TestPattern(alternatives, text) ==
    \E a \in alternatives :
        \E i \in 1..(Len(text) - Len(a) + 1) :
            /\ SubSeq(text, i, i + Len(a) - 1) = a
            /\ Boundary(text, i - 1)
            /\ Boundary(text, i + Len(a) - 1)

(***************************************************************************)
(* Topic and description heuristics (extractTopics, createDescription).    *)
(***************************************************************************)
\* The first n elements of a sequence: Array.prototype.slice(0, n).
Slice(seq, n) == SubSeq(seq, 1, IF Len(seq) < n THEN Len(seq) ELSE n)

\* String(v) of each message, as Array.prototype.join renders the elements.
TextsOf(messages) == [i \in DOMAIN messages |-> messages[i].text]

Pattern(alternatives, name) == [alternatives |-> alternatives, name |-> name]

\* The patterns of a table that the text matches, by name, in table order.
NamesFound(table, text) ==
    LET Found(p) == TestPattern(p.alternatives, text)
        found == SelectSeq(table, Found)
    IN  [i \in DOMAIN found |-> found[i].name]

topicPatterns ==
    << Pattern({"fix", "bug", "error", "issue", "problem"}, "bug-fix"),
       Pattern({"test", "testing", "spec", "jest", "playwright"}, "testing"),
       Pattern({"refactor", "cleanup", "clean up"}, "refactoring"),
       Pattern({"feature", "implement", "add", "create", "build"}, "feature"),
       Pattern({"review", "code review"}, "review"),
       Pattern({"deploy", "deployment", "ci", "cd", "pipeline"}, "deployment"),
       Pattern({"database", "db", "migration", "schema"}, "database"),
       Pattern({"api", "endpoint", "rest", "graphql"}, "api"),
       Pattern({"ui", "frontend", "component", "react", "css"}, "frontend"),
       Pattern({"backend", "server", "service"}, "backend"),
       Pattern({"doc", "documentation", "readme"}, "documentation"),
       Pattern({"config", "configuration", "setup", "init"}, "configuration"),
       Pattern({"security", "auth", "authentication", "authorization"}, "security"),
       Pattern({"performance", "optimize", "optimization", "speed"}, "performance"),
       Pattern({"debug", "debugging", "investigate"}, "debugging") >>

\* Mutant: every matched topic is returned, however many there are.
extractTopicsUntruncated(messages) ==
    LET text == LowerCase(Join(TextsOf(messages), " "))
        joined == Join(NamesFound(topicPatterns, text), ", ")
    IN  IF joined = "" THEN "general" ELSE joined

extractTopics(messages) ==
    LET text == LowerCase(Join(TextsOf(messages), " "))
        joined == Join(Slice(NamesFound(topicPatterns, text), 5), ", ")
    IN  IF joined = "" THEN "general" ELSE joined

\* The messages createDescription's filter drops without looking further.
Stoplist ==
    {"yes", "no", "ok", "y", "n", "1", "2", "3", "4", "5", "all", "done", "good", "great",
     "thanks", "perfect", "continue", "go ahead", "sounds good", "looks good",
     "/init", "commit", "push", "moved it", "that works"}

\* Mutant: the filter keeps a message of 5 characters or more.
MeaningfulFromFiveCharacters(m) ==
    IF ~JsTruthy(m) THEN "drop"
    ELSE IF m.type # "string" THEN "throw"
    ELSE IF Len(m.text) < 3 THEN "drop"
    ELSE LET lower == Trim(LowerCase(m.text))
         IN  IF lower \in Stoplist THEN "drop"
             ELSE IF Len(lower) < 5 THEN "drop"
             ELSE "keep"

\* The filter callback of createDescription on one message: "drop", "keep",
\* or "throw".  A truthy value that is not a string has no length
\* (undefined < 3 is false) and no toLowerCase method, so the call
\* m.toLowerCase() throws a TypeError.
Meaningful(m) ==
    IF ~JsTruthy(m) THEN "drop"
    ELSE IF m.type # "string" THEN "throw"
    ELSE IF Len(m.text) < 3 THEN "drop"
    ELSE LET lower == Trim(LowerCase(m.text))
         IN  IF lower \in Stoplist THEN "drop"
             ELSE IF Len(lower) < 10 THEN "drop"
             ELSE "keep"

actionPatterns ==
    << Pattern({"fix", "fixed", "fixing", "bug", "error", "issue", "problem", "broken",
                "not working", "doesn't work"}, "Bug fixes"),
       Pattern({"add", "added", "adding", "implement", "implemented", "new feature",
                "create", "build"}, "Feature development"),
       Pattern({"update", "updated", "updating", "change", "changed", "modify", "modified",
                "improve"}, "Updates"),
       Pattern({"refactor", "refactored", "cleanup", "clean up", "reorganize",
                "restructure"}, "Refactoring"),
       Pattern({"test", "tests", "testing", "e2e", "playwright", "jest", "spec"}, "Testing"),
       Pattern({"deploy", "deployed", "deployment", "ci", "cd", "pipeline", "release"},
               "Deployment"),
       Pattern({"debug", "debugging", "investigate", "troubleshoot", "figure out"},
               "Debugging"),
       Pattern({"config", "configure", "setup", "set up", "setting", "install"},
               "Configuration"),
       Pattern({"review", "reviewed", "pr ", "pull request", "code review"}, "Code review"),
       Pattern({"document", "documentation", "readme", "docs"}, "Documentation") >>

featurePatterns ==
    << Pattern({"auth", "authentication", "login", "logout", "sign in", "sign out",
                "session", "jwt", "token"}, "authentication"),
       Pattern({"database", "db", "schema", "migration", "query", "sql", "postgres",
                "table"}, "database"),
       Pattern({"api", "endpoint", "route", "controller", "rest", "graphql"}, "API"),
       Pattern({"ui", "component", "page", "form", "modal", "button", "layout", "style",
                "css"}, "UI"),
       Pattern({"notification", "notifications", "email", "alert", "toast", "bell"},
               "notifications"),
       Pattern({"dashboard", "report", "chart", "analytics", "metrics"}, "dashboard"),
       Pattern({"user", "users", "account", "profile", "settings", "preferences"},
               "user management"),
       Pattern({"payment", "billing", "subscription", "invoice", "stripe", "plaid"},
               "payments"),
       Pattern({"import", "export", "sync", "integration", "webhook"}, "data sync"),
       Pattern({"transaction", "transactions", "account", "accounts", "balance"},
               "transactions"),
       Pattern({"tax", "taxes", "deduction", "income", "expense"}, "tax features"),
       Pattern({"property", "properties", "real estate", "rental"}, "property management"),
       Pattern({"file", "files", "upload", "download", "attachment"}, "file handling"),
       Pattern({"search", "filter", "sort", "pagination"}, "search/filter"),
       Pattern({"navigation", "routing", "menu", "sidebar", "header"}, "navigation"),
       Pattern({"validation", "validate", "error handling", "error message"},
               "validation") >>

\* The alternatives of /^(please|can you|...|ok,?|so,?)\s+/i in the order the
\* regular expression tries them, the optional comma taken first.
Fillers ==
    <<"please", "can you", "could you", "help me", "i need to", "i want to", "let's",
      "we need to", "ok,", "ok", "so,", "so">>

StartsWithFiller(msg, f) ==
    /\ Len(msg) > Len(f)
    /\ LowerCase(SubSeq(msg, 1, Len(f))) = f
    /\ IsSpace(CharAt(msg, Len(f) + 1))

\* replace(/^(filler)\s+/i, ''): the filler and the white space after it go.
StripFiller(msg) ==
    IF \E i \in DOMAIN Fillers : StartsWithFiller(msg, Fillers[i])
    THEN LET first == CHOOSE i \in DOMAIN Fillers :
                         /\ StartsWithFiller(msg, Fillers[i])
                         /\ \A j \in 1..(i - 1) : ~StartsWithFiller(msg, Fillers[j])
         IN  TrimStart(SubSeq(msg, Len(Fillers[first]) + 1, Len(msg)))
    ELSE msg

\* replace(/\s+/g, ' ')
\* A run of white space gives one space, at its first character.
RECURSIVE CollapseSpacesBetween(_, _, _)
CollapseSpacesBetween(str, lo, hi) ==
    IF lo > hi THEN ""
    ELSE IF lo = hi
    THEN (IF ~IsSpace(CharAt(str, lo)) THEN CharAt(str, lo)
          ELSE IF lo > 1 /\ IsSpace(CharAt(str, lo - 1)) THEN ""
          ELSE " ")
    ELSE LET mid == (lo + hi) \div 2
         IN  CollapseSpacesBetween(str, lo, mid) \o CollapseSpacesBetween(str, mid + 1, hi)

CollapseSpaces(str) == CollapseSpacesBetween(str, 1, Len(str))

\* firstMsg.charAt(0).toUpperCase() + firstMsg.slice(1)
Capitalize(str) ==
    IF str = "" THEN "" ELSE UpperChar(CharAt(str, 1)) \o SubSeq(str, 2, Len(str))

\* firstMsg.length > 80 ? firstMsg.substring(0, 77) + '...' : firstMsg
Truncate(str) == IF Len(str) > 80 THEN SubSeq(str, 1, 77) \o "..." ELSE str

Returned(value) == [threw |-> FALSE, value |-> value]

Thrown(error) == [threw |-> TRUE, value |-> error]

\* Mutant: the feature areas are left out when an action type was found.
createDescriptionActionsFirst(messages, topics) ==
    IF \E i \in DOMAIN messages : Meaningful(messages[i]) = "throw"
    THEN Thrown("TypeError: m.toLowerCase is not a function")
    ELSE
    LET Keep(m) == Meaningful(m) = "keep"
        meaningfulMessages == TextsOf(SelectSeq(messages, Keep))
        allText == LowerCase(Join(meaningfulMessages, " "))
        actionTypes == NamesFound(actionPatterns, allText)
        featureAreas == NamesFound(featurePatterns, allText)
    IN  IF meaningfulMessages = <<>>
        THEN Returned(IF topics # "" THEN "Development: " \o topics ELSE "Development work")
        ELSE IF actionTypes # <<>>
        THEN Returned(Join(Slice(actionTypes, 3), ", ")
                        \o (IF topics # "" /\ topics # "general"
                            THEN " (" \o topics \o ")" ELSE ""))
        ELSE IF featureAreas # <<>>
        THEN Returned("Development: " \o Join(Slice(featureAreas, 3), ", "))
        ELSE IF topics # "" /\ topics # "general"
        THEN Returned("Development: " \o topics)
        ELSE Returned(Truncate(Capitalize(Trim(CollapseSpaces(
                        StripFiller(meaningfulMessages[1]))))))

createDescription(messages, topics) ==
    IF \E i \in DOMAIN messages : Meaningful(messages[i]) = "throw"
    THEN Thrown("TypeError: m.toLowerCase is not a function")
    ELSE
    LET Keep(m) == Meaningful(m) = "keep"
        meaningfulMessages == TextsOf(SelectSeq(messages, Keep))
        allText == LowerCase(Join(meaningfulMessages, " "))
        actionTypes == NamesFound(actionPatterns, allText)
        featureAreas == NamesFound(featurePatterns, allText)
    IN  IF meaningfulMessages = <<>>
        THEN Returned(IF topics # "" THEN "Development: " \o topics ELSE "Development work")
        ELSE IF actionTypes # <<>> /\ featureAreas # <<>>
        THEN Returned(Join(Slice(actionTypes, 2), " & ") \o ": "
                        \o Join(Slice(featureAreas, 3), ", "))
        ELSE IF actionTypes # <<>>
        THEN Returned(Join(Slice(actionTypes, 3), ", ")
                        \o (IF topics # "" /\ topics # "general"
                            THEN " (" \o topics \o ")" ELSE ""))
        ELSE IF featureAreas # <<>>
        THEN Returned("Development: " \o Join(Slice(featureAreas, 3), ", "))
        ELSE IF topics # "" /\ topics # "general"
        THEN Returned("Development: " \o topics)
        ELSE Returned(Truncate(Capitalize(Trim(CollapseSpaces(
                        StripFiller(meaningfulMessages[1]))))))

(***************************************************************************)
(* Durations of a row.                                                     *)
(***************************************************************************)
\* Mutant: the start is taken from the end the wrong way round.
calculateDurationMsReversed(startMs, endMs) ==
    IF startMs = 0 \/ endMs = 0 THEN 0 ELSE startMs - endMs

calculateDurationMs(startMs, endMs) ==
    IF startMs = 0 \/ endMs = 0 THEN 0 ELSE endMs - startMs

\* Math.round: the nearest integer, a half rounded up.
RoundedQuotient(n, d) == (2 * n + d) \div (2 * d)

\* Number.prototype.toString of an integer.
RECURSIVE DigitsOf(_)
DigitsOf(n) ==
    IF n < 10 THEN CharAt(Digits, n + 1)
    ELSE DigitsOf(n \div 10) \o CharAt(Digits, (n % 10) + 1)

NumberToString(n) == IF n < 0 THEN "-" \o DigitsOf(0 - n) ELSE DigitsOf(n)

formatDurationMinutes(ms) ==
    IF ms = 0 THEN "0" ELSE NumberToString(RoundedQuotient(ms, 60000))

\* The value of the decimal digits str[1..n].
RECURSIVE ValueOfDigits(_, _)
ValueOfDigits(str, n) ==
    IF n = 0 THEN 0
    ELSE 10 * ValueOfDigits(str, n - 1) + (IndexIn(Digits, CharAt(str, n)) - 1)

\* parseInt of a string of decimal digits with an optional sign.
parseInt(str) ==
    IF str # "" /\ CharAt(str, 1) = "-"
    THEN 0 - ValueOfDigits(SubSeq(str, 2, Len(str)), Len(str) - 1)
    ELSE ValueOfDigits(str, Len(str))

(***************************************************************************)
(* Field escaping of the CSV and TSV writers.                              *)
(***************************************************************************)
\* str.includes(c)
Includes(str, c) == \E i \in 1..Len(str) : CharAt(str, i) = c

\* str.replace(/c/g, to) for a single character c.
RECURSIVE ReplaceCharFrom(_, _, _, _)
ReplaceCharFrom(str, i, c, to) ==
    IF i > Len(str) THEN ""
    ELSE (IF CharAt(str, i) = c THEN to ELSE CharAt(str, i))
            \o ReplaceCharFrom(str, i + 1, c, to)

ReplaceChar(str, c, to) == ReplaceCharFrom(str, 1, c, to)

\* str.replace(/\r?\n/g, ' ')
RECURSIVE ReplaceNewlinesFrom(_, _)
ReplaceNewlinesFrom(str, i) ==
    IF i > Len(str) THEN ""
    ELSE IF CharAt(str, i) = "\r" /\ i < Len(str) /\ CharAt(str, i + 1) = "\n"
    THEN " " \o ReplaceNewlinesFrom(str, i + 2)
    ELSE IF CharAt(str, i) = "\n"
    THEN " " \o ReplaceNewlinesFrom(str, i + 1)
    ELSE CharAt(str, i) \o ReplaceNewlinesFrom(str, i + 1)

ReplaceNewlines(str) == ReplaceNewlinesFrom(str, 1)

\* Mutant: the quotes inside a quoted field are not doubled.
escapeCSVQuotesNotDoubled(str) ==
    IF Includes(str, ",") \/ Includes(str, "\"") \/ Includes(str, "\n") \/ Includes(str, "\r")
    THEN "\"" \o ReplaceNewlines(str) \o "\""
    ELSE str

escapeCSV(str) ==
    IF Includes(str, ",") \/ Includes(str, "\"") \/ Includes(str, "\n") \/ Includes(str, "\r")
    THEN "\"" \o ReplaceNewlines(ReplaceChar(str, "\"", "\"\"")) \o "\""
    ELSE str

escapeTSV(str) == ReplaceNewlines(ReplaceChar(str, "\t", " "))

\* rows.map(fields => fields.map(escape).join(sep)).join('\n')
RECURSIVE JoinRows(_, _)
JoinRows(rows, sep) ==
    IF rows = <<>> THEN <<>>
    ELSE Append(JoinRows(SubSeq(rows, 1, Len(rows) - 1), sep), Join(rows[Len(rows)], sep))

WriteCSV(rows) ==
    Join(JoinRows([i \in DOMAIN rows |->
                      [j \in DOMAIN rows[i] |-> escapeCSV(rows[i][j])]], ","), "\n")

WriteTSV(rows) ==
    Join(JoinRows([i \in DOMAIN rows |->
                      [j \in DOMAIN rows[i] |-> escapeTSV(rows[i][j])]], "\t"), "\n")

(***************************************************************************)
(* Billing lookup.                                                         *)
(***************************************************************************)
\* config.mappings[repoName] || {}: a missing or empty field is ''.
NoMapping == [client |-> "", project |-> ""]

MappingOf(cfg, repoName) ==
    IF repoName \in DOMAIN cfg.mappings THEN cfg.mappings[repoName] ELSE NoMapping

\* Mutant: the default client is not consulted.
getMappingNoDefault(cfg, repoName) ==
    LET mapping == MappingOf(cfg, repoName)
    IN  [client |-> mapping.client,
         project |-> IF mapping.project # "" THEN mapping.project ELSE repoName]

getMapping(cfg, repoName) ==
    LET mapping == MappingOf(cfg, repoName)
    IN  [client |-> IF mapping.client # "" THEN mapping.client
                    ELSE IF cfg.defaultClient # "" THEN cfg.defaultClient
                    ELSE "",
         project |-> IF mapping.project # "" THEN mapping.project ELSE repoName]

(***************************************************************************)
(* Idle values of the variables a specification does not use.              *)
(***************************************************************************)
NoOp == [op |-> "none", key |-> "", timestamp |-> Null, ok |-> FALSE, before |-> AbsentFile]

NoHistory == [exists |-> FALSE, lines |-> <<>>]

NoConfig == [exports |-> <<>>]

\* No function call under study.
NoCall == [fn |-> "none"]

\* No overlapping invocations.
NoWriters == <<>>

IdleInv ==
    [pc |-> "idle", mode |-> "none", runs |-> 0, stateKey |-> "", useNew |-> FALSE,
     all |-> FALSE, repo |-> NoRepo, repositories |-> <<>>, output |-> "",
     from |-> Null, to |-> Null, lastExportTime |-> Null, queue |-> <<>>,
     filtered |-> <<>>, results |-> <<>>, saveCalls |-> 0, saved |-> FALSE,
     savedAt |-> Null, label |-> "", lines |-> <<>>, exitCode |-> 0, requested |-> "",
     totalSessions |-> 0]

(***************************************************************************)
(* SpecSessions: the session builder applied to every list of at most      *)
(* MaxEvents entries.  Timestamps lie around multiples of the session gap, *)
(* so gaps of 0, 1, the threshold less one, the threshold and the          *)
(* threshold plus one all occur; the message of an entry names its place   *)
(* in the input.                                                           *)
(***************************************************************************)
Times == {1, 2, 1 + SESSION_GAP_MS, 2 + SESSION_GAP_MS, 2 + 2 * SESSION_GAP_MS}

MessageIds == <<"m1", "m2", "m3", "m4", "m5", "m6">>

InitSessions ==
    /\ \E n \in 0..MaxEvents :
         \E f \in [1..n -> Times \X Paths] :
            entries = [i \in 1..n |-> Entry(f[i][1], f[i][2], MessageIds[i])]
    /\ sessions = <<>>
    /\ built = FALSE
    /\ stateFile = AbsentFile
    /\ lastOp = NoOp
    /\ history = NoHistory
    /\ clock = 0
    /\ config = NoConfig
    /\ inv = IdleInv
    /\ reports = <<>>
    /\ writers = NoWriters
    /\ arg = NoCall
    /\ ret = NoCall

GroupIntoSessions ==
    /\ ~built
    /\ sessions' = BuildSessions(entries)
    /\ built' = TRUE
    /\ UNCHANGED <<writers, entries, stateFile, lastOp, history, clock, config, inv, reports, arg, ret>>

NextSessions == GroupIntoSessions

SpecSessions == InitSessions /\ [][NextSessions]_vars

(***************************************************************************)
(* Vocabulary of the session properties.                                   *)
(***************************************************************************)
\* Entry i precedes entry j in time, input order deciding ties.
Precedes(i, j) ==
    \/ entries[i].timestamp < entries[j].timestamp
    \/ entries[i].timestamp = entries[j].timestamp /\ i < j

\* Entries i and j are consecutive in time.
TimeAdjacent(i, j) ==
    /\ Precedes(i, j)
    /\ ~\E k \in DOMAIN entries : Precedes(i, k) /\ Precedes(k, j)

\* The index, in the result, of the session that holds entry i.
SessionOf(i) ==
    CHOOSE n \in DOMAIN sessions : entries[i].message \in Range(sessions[n].messages)

SameContext(i, j) ==
    normalizeProjectPath(entries[i].project) = normalizeProjectPath(entries[j].project)

Gap(i, j) == entries[j].timestamp - entries[i].timestamp

\* The timestamp of the entry whose message is m.
TimestampOf(m) == (CHOOSE e \in Range(entries) : e.message = m).timestamp

(***************************************************************************)
(* Session builder properties.                                             *)
(***************************************************************************)

\* C1: the sessions returned are ordered by startTime descending, and any
\* two distinct sessions are disjoint in time: one ends no later than the
\* other starts.
C1_SessionsOrderedAndDisjoint ==
    built =>
        /\ \A a, b \in DOMAIN sessions :
              a < b => sessions[a].startTime >= sessions[b].startTime
        /\ \A a, b \in DOMAIN sessions :
              a # b => \/ sessions[a].endTime <= sessions[b].startTime
                       \/ sessions[b].endTime <= sessions[a].startTime

\* C1 witness: an input given out of time order, with two entries of one
\* timestamp in different contexts, grouped into three sessions.
C1_Witness ==
    /\ built
    /\ Len(sessions) = 3
    /\ \E i, j \in DOMAIN entries : i < j /\ entries[i].timestamp > entries[j].timestamp
    /\ \E i, j \in DOMAIN entries :
          i # j /\ entries[i].timestamp = entries[j].timestamp /\ ~SameContext(i, j)

\* C2: gap invariant.  Two time-adjacent entries placed in one session are at
\* most SESSION_GAP_MS apart (the earlier one is the session's end before it
\* is extended) and consecutive messages of a session are at most the gap
\* apart; an entry that opens a session after closing another is more than
\* SESSION_GAP_MS past the closed session's endTime or in another context.
C2_GapInvariant ==
    built =>
        /\ \A i, j \in DOMAIN entries :
              TimeAdjacent(i, j) =>
                 IF SessionOf(i) = SessionOf(j)
                 THEN Gap(i, j) <= SESSION_GAP_MS
                 ELSE LET closed == sessions[SessionOf(i)]
                      IN  \/ entries[j].timestamp - closed.endTime > SESSION_GAP_MS
                          \/ normalizeProjectPath(entries[j].project)
                                # normalizeProjectPath(closed.project)
        /\ \A n \in DOMAIN sessions :
              \A k \in 1..(Len(sessions[n].messages) - 1) :
                 TimestampOf(sessions[n].messages[k + 1])
                    - TimestampOf(sessions[n].messages[k]) <= SESSION_GAP_MS

\* C2 witness: one session extended across a gap, and a boundary made by the
\* gap alone (same context on both sides).
C2_Witness ==
    /\ built
    /\ \E i, j \in DOMAIN entries :
          TimeAdjacent(i, j) /\ SessionOf(i) = SessionOf(j) /\ Gap(i, j) > 0
    /\ \E i, j \in DOMAIN entries :
          TimeAdjacent(i, j) /\ SessionOf(i) # SessionOf(j) /\ SameContext(i, j)

C4_GapOfThirtyMinutesOrMoreSplits ==
    built =>
        \A i, j \in DOMAIN entries :
           TimeAdjacent(i, j) /\ SameContext(i, j) /\ Gap(i, j) >= SESSION_GAP_MS
              => SessionOf(i) # SessionOf(j)

\* The sessions of the result that belong to normalized path p, in order.
RECURSIVE SessionsOfPath(_, _)
SessionsOfPath(ss, p) ==
    IF ss = <<>> THEN <<>>
    ELSE LET rest == SessionsOfPath(SubSeq(ss, 1, Len(ss) - 1), p)
             last == ss[Len(ss)]
         IN  IF normalizeProjectPath(last.project) = p THEN Append(rest, last) ELSE rest

\* The entries of the input that belong to normalized path p, in order.
EntriesOfPath(p) ==
    FilterByPredicate(entries, {e \in Range(entries) : normalizeProjectPath(e.project) = p})

\* C5 ("each repository is tracked separately"): the sessions an export over
\* several repositories produces for one project path are the sessions the
\* builder produces from that path's entries alone.
C5_RepositoriesTrackedSeparately ==
    built =>
        \A p \in {normalizeProjectPath(q) : q \in Paths} :
           SessionsOfPath(sessions, p) = BuildSessions(EntriesOfPath(p))

\* C28: all events of a session have one normalized (case-folded) project
\* path; two consecutive events whose paths differ only in letter case, no
\* more than the gap apart, share a session; and two events of different
\* normalized paths are never in one session, also when they are less than
\* 30 minutes apart or have the same repository name.
C28_OneContextPerSession ==
    built =>
        /\ \A i, j \in DOMAIN entries :
              SessionOf(i) = SessionOf(j) =>
                 /\ SameContext(i, j)
                 /\ normalizeProjectPath(sessions[SessionOf(i)].project)
                       = normalizeProjectPath(entries[i].project)
        /\ \A i, j \in DOMAIN entries :
              ~SameContext(i, j) => SessionOf(i) # SessionOf(j)
        /\ \A i, j \in DOMAIN entries :
              TimeAdjacent(i, j) /\ SameContext(i, j) /\ Gap(i, j) <= SESSION_GAP_MS
                 => SessionOf(i) = SessionOf(j)

\* C28 witness: two events of one project spelled in different case share a
\* session, and an event of the same repository name in another directory,
\* a millisecond after one of them, is in a session of its own.
C28_Witness ==
    /\ built
    /\ \E i, j \in DOMAIN entries :
          /\ entries[i].project # entries[j].project
          /\ SessionOf(i) = SessionOf(j)
    /\ \E i, j \in DOMAIN entries :
          /\ getRepositoryName(entries[i].project) = getRepositoryName(entries[j].project)
          /\ Gap(i, j) = 1
          /\ SessionOf(i) # SessionOf(j)

\* The places (session, position) of the result that hold message m.
PlacesOf(m) ==
    {<<n, k>> \in (DOMAIN sessions) \X (1..(MaxEvents + 1)) :
        k \in DOMAIN sessions[n].messages /\ sessions[n].messages[k] = m}

\* The sum of the sessions' message counts.
RECURSIVE MessageTotal(_)
MessageTotal(ss) ==
    IF ss = <<>> THEN 0
    ELSE MessageTotal(SubSeq(ss, 1, Len(ss) - 1)) + Len(ss[Len(ss)].messages)

\* C31: session building conserves events.  Every entry handed to the
\* builder is at exactly one place of exactly one session, every message of
\* a session is the message of an entry, the messages of a session are in
\* ascending timestamp order, and the message counts of the sessions add up
\* to the number of entries.
C31_SessionsConserveEvents ==
    built =>
        /\ \A i \in DOMAIN entries : Cardinality(PlacesOf(entries[i].message)) = 1
        /\ \A n \in DOMAIN sessions :
              /\ sessions[n].messages # <<>>
              /\ \A k \in DOMAIN sessions[n].messages :
                    \E i \in DOMAIN entries : entries[i].message = sessions[n].messages[k]
              /\ \A k \in 1..(Len(sessions[n].messages) - 1) :
                    TimestampOf(sessions[n].messages[k])
                       <= TimestampOf(sessions[n].messages[k + 1])
        /\ MessageTotal(sessions) = Len(entries)

\* C31 witness: three entries given out of time order are grouped into two
\* sessions, one of them holding two messages of different timestamps.
C31_Witness ==
    /\ built
    /\ Len(entries) = 3
    /\ Len(sessions) = 2
    /\ \E i, j \in DOMAIN entries : i < j /\ entries[i].timestamp > entries[j].timestamp
    /\ \E n \in DOMAIN sessions :
          /\ Len(sessions[n].messages) = 2
          /\ TimestampOf(sessions[n].messages[1]) < TimestampOf(sessions[n].messages[2])

(***************************************************************************)
(* SpecWatermark: any sequence of reads and writes of the watermark store, *)
(* from every kind of state file, with write failures.                     *)
(***************************************************************************)
ScopeKeys == {"_all", "app", "profile:a", "profile:b"}

Stamps == 1..MaxStamp

InitWatermark ==
    /\ stateFile \in {AbsentFile, CorruptFile, OtherFile} \cup {LegacyFile(n) : n \in Stamps}
    /\ lastOp = NoOp
    /\ entries = <<>>
    /\ sessions = <<>>
    /\ built = FALSE
    /\ history = NoHistory
    /\ clock = 0
    /\ config = NoConfig
    /\ inv = IdleInv
    /\ reports = <<>>
    /\ writers = NoWriters
    /\ arg = NoCall
    /\ ret = NoCall

\* write(k, t): saveLastExportTime(k, t); the file may be unwritable.
WriteWatermark ==
    \E k \in ScopeKeys, t \in Stamps, writable \in BOOLEAN :
       /\ stateFile' = saveLastExportTime(stateFile, k, t, writable)
       /\ lastOp' = [op |-> "write", key |-> k, timestamp |-> t,
                     ok |-> SaveSucceeds(stateFile, writable), before |-> stateFile]
       /\ UNCHANGED <<writers, entries, sessions, built, history, clock, config, inv, reports, arg, ret>>

\* read(k): getLastExportTime(k)
ReadWatermark ==
    \E k \in ScopeKeys :
       /\ lastOp' = [op |-> "read", key |-> k, timestamp |-> getLastExportTime(stateFile, k),
                     ok |-> TRUE, before |-> stateFile]
       /\ UNCHANGED <<writers, stateFile, entries, sessions, built, history, clock, config, inv, reports, arg, ret>>

NextWatermark == WriteWatermark \/ ReadWatermark

SpecWatermark == InitWatermark /\ [][NextWatermark]_vars

\* The last call was a write that reached the file.
Wrote == lastOp.op = "write" /\ lastOp.ok

\* The keys the file held an own watermark for before the last call, the
\* legacy number being the watermark of '_all'.
StoredBefore ==
    CASE lastOp.before.kind = "keyed" -> DOMAIN lastOp.before.map
      [] lastOp.before.kind = "legacy" -> {"_all"}
      [] OTHER -> {}

StoredValueBefore(k) ==
    IF lastOp.before.kind = "legacy" THEN lastOp.before.num ELSE lastOp.before.map[k]

\* C6: read-after-write: after a successful write(k, t), t positive, from an
\* absent, legacy or keyed state file, read(k) returns t.
C6_ReadAfterWrite ==
    Wrote /\ lastOp.before.kind \in {"absent", "legacy", "keyed"} /\ lastOp.timestamp > 0
       => getLastExportTime(stateFile, lastOp.key) = lastOp.timestamp

\* C6 witness: a successful write that replaced the key's earlier, different
\* watermark in a keyed file of several keys.
C6_Witness ==
    /\ Wrote
    /\ lastOp.before.kind = "keyed"
    /\ Cardinality(DOMAIN lastOp.before.map) >= 2
    /\ lastOp.key \in DOMAIN lastOp.before.map
    /\ lastOp.before.map[lastOp.key] # lastOp.timestamp

\* C7: frame condition: write(k, t) removes no key and leaves the stored
\* watermark, and so read(k'), of every other stored key k' as it was.
C7_WriteFrame ==
    lastOp.op = "write" =>
        \A k2 \in StoredBefore \ {lastOp.key} :
           /\ stateFile.kind \in {"keyed", "legacy"}
           /\ stateFile.kind = "keyed" =>
                 k2 \in DOMAIN stateFile.map /\ stateFile.map[k2] = StoredValueBefore(k2)
           /\ getLastExportTime(stateFile, k2) = getLastExportTime(lastOp.before, k2)

\* C7 witness: a successful write of a new key into a keyed file that held two
\* other keys.
C7_Witness ==
    /\ Wrote
    /\ lastOp.before.kind = "keyed"
    /\ lastOp.key \notin DOMAIN lastOp.before.map
    /\ Cardinality(DOMAIN lastOp.before.map) >= 2
    /\ \E k2 \in DOMAIN lastOp.before.map : lastOp.before.map[k2] # lastOp.timestamp

\* C8: legacy migration: a legacy file {lastExportTime: n} reads as n for
\* every scope key; a successful write(k, t) on it with k # '_all' persists
\* exactly {_all: n, k: t}, after which read('_all') = n and read(k) = t; and
\* a write persists the keyed form or, when it fails, nothing.
C8_LegacyMigration ==
    /\ stateFile.kind = "legacy" =>
          \A k \in ScopeKeys : getLastExportTime(stateFile, k) = stateFile.num
    /\ Wrote /\ lastOp.before.kind = "legacy" /\ lastOp.key # "_all" =>
          /\ stateFile = KeyedFile([x \in {"_all", lastOp.key} |->
                             IF x = "_all" THEN lastOp.before.num ELSE lastOp.timestamp])
          /\ getLastExportTime(stateFile, "_all") = lastOp.before.num
          /\ getLastExportTime(stateFile, lastOp.key) = lastOp.timestamp
    /\ Wrote => stateFile.kind = "keyed"
    /\ lastOp.op = "write" /\ ~lastOp.ok => stateFile = lastOp.before

\* C8 witness: the first write on a legacy file, under a profile key, with a
\* timestamp other than the legacy one.
C8_Witness ==
    /\ Wrote
    /\ lastOp.before.kind = "legacy"
    /\ lastOp.key = "profile:a"
    /\ lastOp.timestamp # lastOp.before.num
    /\ stateFile.kind = "keyed"

\* C18: a read of key k on a keyed state returns the entry of k when there is
\* one, else the entry of '_all' when there is one, else null; it returns
\* null when there is no state file; and it leaves the state file as it was.
C18_KeyedRead ==
    lastOp.op = "read" =>
        LET map == lastOp.before.map
        IN  /\ stateFile = lastOp.before
            /\ lastOp.before.kind = "keyed" =>
                  lastOp.timestamp = IF lastOp.key \in DOMAIN map THEN map[lastOp.key]
                                     ELSE IF "_all" \in DOMAIN map THEN map["_all"]
                                     ELSE Null
            /\ lastOp.before.kind = "absent" => lastOp.timestamp = Null

\* C18 witness: a key without an entry has been read from a keyed state that
\* holds '_all' and another key with a different watermark; the read
\* returned the watermark of '_all'.
C18_Witness ==
    /\ lastOp.op = "read"
    /\ lastOp.before.kind = "keyed"
    /\ lastOp.key \notin DOMAIN lastOp.before.map
    /\ "_all" \in DOMAIN lastOp.before.map
    /\ lastOp.timestamp = lastOp.before.map["_all"]
    /\ \E k \in DOMAIN lastOp.before.map : lastOp.before.map[k] # lastOp.timestamp

(***************************************************************************)
(* SpecExport: export invocations (legacy single export, one profile, all  *)
(* profiles) over a history file that grows while the clock advances.  An  *)
(* invocation reads the watermark when it starts, then reads the history   *)
(* and writes its report, then saves the watermark; the history and the    *)
(* clock may change between these file accesses.                           *)
(***************************************************************************)
Tick == 15 * 60 * 1000

ClockValues == {i * Tick : i \in 1..MaxClock}

\* Two repositories; the invoking directory is another spelling of the first
\* and profile b names the second in lower case.
ExportPaths == {Path("/w", "app"), Path("/w", "Lib")}

\* options.project = process.cwd()
CurrentProject == Path("/W", "App")

Profile(name, repositories, output) ==
    [name |-> name, repositories |-> repositories, output |-> output]

\* config.exports, in the order of Object.keys.
ConfigProfiles ==
    [exports |-> <<Profile("a", <<"app">>, "a.csv"), Profile("b", <<"lib">>, "b.json")>>]

ConfiguredNames(cfg) == {cfg.exports[i].name : i \in DOMAIN cfg.exports}

ProfileNamed(cfg, name) == CHOOSE pr \in Range(cfg.exports) : pr.name = name

InitExport ==
    /\ history \in {NoHistory, [exists |-> TRUE, lines |-> <<>>]}
    /\ stateFile \in {AbsentFile, CorruptFile, LegacyFile(Tick)}
    /\ config \in {ConfigProfiles, NoConfig}
    /\ clock = Tick
    /\ inv = IdleInv
    /\ reports = <<>>
    /\ writers = NoWriters
    /\ arg = NoCall
    /\ ret = NoCall
    /\ lastOp = NoOp
    /\ entries = <<>>
    /\ sessions = <<>>
    /\ built = FALSE

\* Claude Code appends a prompt to the history, stamped with the current
\* time; the prompt names its place in the history.
AppendEvent ==
    /\ Len(history.lines) < MaxLog
    /\ \E p \in ExportPaths :
          history' = [exists |-> TRUE,
                      lines |-> Append(history.lines,
                                       Line(clock, p, Str(MessageIds[Len(history.lines) + 1])))]
    /\ UNCHANGED <<writers, entries, sessions, built, stateFile, lastOp, clock, config, inv, reports, arg, ret>>

ClockTick ==
    /\ clock + Tick \in ClockValues
    /\ clock' = clock + Tick
    /\ UNCHANGED <<writers, entries, sessions, built, stateFile, lastOp, history, config, inv, reports, arg, ret>>

CanStart == inv.pc \in {"idle", "done"} /\ inv.runs < MaxRuns

\* The invocation record of a fresh process.
Fresh(mode, useNew) ==
    [IdleInv EXCEPT !.mode = mode, !.useNew = useNew, !.runs = inv.runs + 1]

\* runExportProfile up to the watermark read of runExport (lines 723-562).
BeginRunExport(rec, profile, file) ==
    [rec EXCEPT
        !.pc = "parse",
        !.label = profile.name,
        !.stateKey = ProfileKey(profile.name),
        !.repositories = profile.repositories,
        !.all = (Len(profile.repositories) = 0),
        !.output = profile.output,
        !.filtered = <<>>,
        !.lines = <<>>,
        !.lastExportTime = IF rec.useNew
                           THEN getLastExportTime(file, ProfileKey(profile.name))
                           ELSE Null]

\* totalSessions += result.sessions in the loop of --run-exports (line 770),
\* the result being the one runExport returned last.
AddToTotal(rec) ==
    IF rec.mode = "all"
    THEN [rec EXCEPT !.totalSessions = @ + rec.results[Len(rec.results)].sessions]
    ELSE rec

\* Mutant: the loop of --run-exports ends after its first profile.
AdvanceFirstProfileOnly(rec, file) ==
    [AddToTotal(rec) EXCEPT !.pc = "done", !.exitCode = 0]

\* What follows the return of runExport: the next profile of --run-exports,
\* or process.exit(0).
Advance(rec, file) ==
    IF rec.queue = <<>>
    THEN [AddToTotal(rec) EXCEPT !.pc = "done", !.exitCode = 0]
    ELSE BeginRunExport([AddToTotal(rec) EXCEPT !.queue = Tail(@)], Head(rec.queue), file)

\* Legacy single-export mode, lines 810-827.
StartAdhoc ==
    /\ CanStart
    /\ \E all \in BOOLEAN, repo \in {NoRepo}, useNew \in BOOLEAN :
          LET key == repoKey(all, repo, CurrentProject)
          IN  inv' = [Fresh("adhoc", useNew) EXCEPT
                         !.pc = "parse",
                         !.all = all,
                         !.repo = repo,
                         !.stateKey = key,
                         !.output = "claude-sessions.csv",
                         !.lastExportTime = IF useNew
                                            THEN getLastExportTime(stateFile, key)
                                            ELSE Null]
    /\ reports' = <<>>
    /\ UNCHANGED <<writers, entries, sessions, built, stateFile, lastOp, history, clock, config, arg, ret>>

\* The names --export-profile is given: the first configured profile, if
\* any, and a name that is not configured.
RequestedNames(cfg) == {cfg.exports[i].name : i \in DOMAIN cfg.exports \cap {1}} \cup {"zz"}

\* --export-profile <name>, lines 790-808.
StartProfile ==
    /\ CanStart
    /\ \E name \in RequestedNames(config), useNew \in BOOLEAN :
          LET rec == [Fresh("profile", useNew) EXCEPT !.requested = name]
          IN  inv' = IF name \in ConfiguredNames(config)
                     THEN BeginRunExport(rec, ProfileNamed(config, name), stateFile)
                     ELSE [rec EXCEPT !.pc = "done", !.exitCode = 1]
    /\ reports' = <<>>
    /\ UNCHANGED <<writers, entries, sessions, built, stateFile, lastOp, history, clock, config, arg, ret>>

\* Mutant: --run-exports with no profile configured does nothing and exits 0.
StartAllProfilesSilent ==
    /\ CanStart
    /\ \E useNew \in BOOLEAN :
          inv' = IF config.exports = <<>>
                 THEN [Fresh("all", useNew) EXCEPT !.pc = "done", !.exitCode = 0]
                 ELSE BeginRunExport([Fresh("all", useNew) EXCEPT
                                         !.queue = Tail(config.exports)],
                                     Head(config.exports), stateFile)
    /\ reports' = <<>>
    /\ UNCHANGED <<writers, entries, sessions, built, stateFile, lastOp, history, clock, config, arg, ret>>

\* --run-exports, lines 752-788.
StartAllProfiles ==
    /\ CanStart
    /\ \E useNew \in BOOLEAN :
          inv' = IF config.exports = <<>>
                 THEN [Fresh("all", useNew) EXCEPT !.pc = "done", !.exitCode = 1]
                 ELSE BeginRunExport([Fresh("all", useNew) EXCEPT
                                         !.queue = Tail(config.exports)],
                                     Head(config.exports), stateFile)
    /\ reports' = <<>>
    /\ UNCHANGED <<writers, entries, sessions, built, stateFile, lastOp, history, clock, config, arg, ret>>

Report(output, rows) == [output |-> output, sessions |-> rows]

Result(label, count, error) == [label |-> label, sessions |-> count, error |-> error]

\* The history check, the parse, the repository filter, the grouping and the
\* write of the report: runExport lines 564-703, legacy mode lines 832-987.
ParseAndReport ==
    /\ inv.pc = "parse"
    /\ IF ~history.exists
       THEN /\ inv' = IF inv.mode = "adhoc"
                      THEN [inv EXCEPT !.pc = "done", !.exitCode = 1]
                      ELSE Advance([inv EXCEPT !.results =
                                       Append(@, Result(inv.label, 0, "History file not found"))],
                                   stateFile)
            /\ UNCHANGED reports
       ELSE LET parsed == ParseEntries(history.lines, inv.from, inv.to, inv.lastExportTime)
                kept == IF inv.mode = "adhoc"
                        THEN FilterLegacy(parsed, inv.all, inv.repo, CurrentProject)
                        ELSE FilterRunExport(parsed, inv.all, inv.repositories, inv.repo)
            IN  /\ inv' = [inv EXCEPT !.pc = "save", !.lines = history.lines,
                                       !.filtered = kept]
                /\ reports' = Append(reports, Report(inv.output, BuildSessions(kept)))
    /\ UNCHANGED <<writers, entries, sessions, built, stateFile, lastOp, history, clock, config, arg, ret>>

\* The latest timestamp among the lines, 0 when there are none.
RECURSIVE LatestStamp(_)
LatestStamp(lines) ==
    IF lines = <<>> THEN 0
    ELSE LET rest == LatestStamp(Tail(lines))
         IN  IF Head(lines).timestamp > rest THEN Head(lines).timestamp ELSE rest

\* Variant: the watermark is the timestamp of the last event the run read,
\* not the time of the save.
SaveExportTimeOfLastEventRead ==
    /\ inv.pc = "save"
    /\ \E writable \in BOOLEAN :
          LET stamp == LatestStamp(inv.lines)
              after == saveLastExportTime(stateFile, inv.stateKey, stamp, writable)
              rec == [inv EXCEPT
                         !.saveCalls = @ + 1,
                         !.saved = SaveSucceeds(stateFile, writable),
                         !.savedAt = stamp,
                         !.results = Append(@, Result(inv.label,
                                        Len(reports[Len(reports)].sessions), ""))]
          IN  /\ stateFile' = after
              /\ inv' = Advance(rec, after)
    /\ UNCHANGED <<writers, entries, sessions, built, lastOp, history, clock, config, reports, arg, ret>>

\* saveLastExportTime(stateKey, Date.now()) and the return: runExport lines
\* 705-714, legacy mode line 990.
SaveExportTimeWhen(writable) ==
    /\ inv.pc = "save"
    /\ LET after == saveLastExportTime(stateFile, inv.stateKey, clock, writable)
           rec == [inv EXCEPT
                      !.saveCalls = @ + 1,
                      !.saved = SaveSucceeds(stateFile, writable),
                      !.savedAt = clock,
                      !.results = Append(@, Result(inv.label,
                                     Len(reports[Len(reports)].sessions), ""))]
       IN  /\ stateFile' = after
           /\ inv' = Advance(rec, after)
    /\ UNCHANGED <<writers, entries, sessions, built, lastOp, history, clock, config, reports, arg, ret>>

\* The state file may or may not be writable at that moment.
SaveExportTime == \E writable \in BOOLEAN : SaveExportTimeWhen(writable)

NextExport ==
    \/ AppendEvent
    \/ ClockTick
    \/ StartAdhoc
    \/ StartProfile
    \/ StartAllProfiles
    \/ ParseAndReport
    \/ SaveExportTime

SpecExport == InitExport /\ [][NextExport]_vars

(***************************************************************************)
(* Export properties.                                                      *)
(***************************************************************************)
\* The watermark the state file holds under key k itself, Null when none.
OwnWatermark(file, k) == IF file.kind = "keyed" THEN Lookup(file.map, k) ELSE Null

\* The running export is one of a profile.
ProfileRun == inv.mode \in {"profile", "all"}

\* What the running profile export reports when only its own watermark
\* filters the lines it read.
ExportedByOwnWatermark ==
    FilterRunExport(
        ParseEntries(inv.lines, inv.from, inv.to, OwnWatermark(stateFile, inv.stateKey)),
        inv.all, inv.repositories, inv.repo)

\* C9: profile watermark independence: what an incremental run of a profile
\* exports depends on earlier exports of that profile alone, and on no export
\* under an ad-hoc scope or another profile.  On a keyed state file, where
\* only the profile's own exports write the profile's entry: the run exports
\* exactly the lines its repository filter accepts that are newer than the
\* profile's own watermark, all of them when the profile has none.
C9_ProfileWatermarkIndependent ==
    inv.pc = "save" /\ ProfileRun /\ inv.useNew /\ stateFile.kind = "keyed"
       => inv.filtered = ExportedByOwnWatermark

\* C10 as stated: whenever an export that wrote its report makes its save
\* step, the state file then holds the wall-clock time under the scope key.
C10_EveryReportSetsWatermark ==
    [][inv.pc = "save" /\ inv' # inv =>
          stateFile'.kind = "keyed" /\ Lookup(stateFile'.map, inv.stateKey) = clock]_vars

\* C10 amended: every report written is followed by exactly one call of
\* saveLastExportTime, with the wall-clock time of that moment; when the save
\* succeeds the scope key then holds that time, in every mode and whatever
\* was exported, and when it fails the state file is left as it was; and an
\* incremental run of a scope that has its own watermark exports no entry
\* with a timestamp <= that watermark.
C10_SaveSetsWatermarkToNow ==
    /\ [][inv.pc = "save" /\ inv' # inv =>
            /\ inv'.saveCalls = inv.saveCalls + 1
            /\ inv'.savedAt = clock
            /\ IF inv'.saved
               THEN /\ stateFile'.kind = "keyed"
                    /\ Lookup(stateFile'.map, inv.stateKey) = clock
                    /\ getLastExportTime(stateFile', inv.stateKey) = clock
               ELSE stateFile' = stateFile]_vars
    /\ [](inv.saveCalls = Len(reports) - (IF inv.pc = "save" THEN 1 ELSE 0))
    /\ [](inv.pc = "save" /\ inv.useNew /\ Truthy(OwnWatermark(stateFile, inv.stateKey))
            => \A e \in Range(inv.filtered) :
                  e.timestamp > OwnWatermark(stateFile, inv.stateKey))

\* C10 witness: a non-incremental export that matched no entry of a non-empty
\* history has saved its watermark, which is later than every entry.
C10_Witness ==
    /\ inv.pc = "done"
    /\ ~inv.useNew
    /\ inv.saved
    /\ inv.lines # <<>>
    /\ inv.filtered = <<>>
    /\ OwnWatermark(stateFile, inv.results[Len(inv.results)].label) = Null
    /\ \E k \in DOMAIN stateFile.map :
          /\ stateFile.map[k] = inv.savedAt
          /\ \A i \in DOMAIN inv.lines : inv.lines[i].timestamp < inv.savedAt

(***************************************************************************)
(* Error handling of the invocations (SpecExport).                         *)
(***************************************************************************)
\* The invocation found the history file missing: the legacy mode ends
\* without having written a report, a profile's runExport returned the error.
FoundHistoryMissing ==
    \/ inv.mode = "adhoc" /\ inv.pc = "done" /\ inv.saveCalls = 0
    \/ \E i \in DOMAIN inv.results : inv.results[i].error = "History file not found"

\* C12: an invocation of any shape that found the log source missing ends in
\* an error outcome (a non-zero exit), has written no report and has written
\* no watermark.
C12_MissingHistoryIsFatal ==
    inv.pc = "done" /\ FoundHistoryMissing =>
        /\ inv.exitCode # 0
        /\ reports = <<>>
        /\ inv.saveCalls = 0

\* The result runExport returned last.
LastResult(rec) == rec.results[Len(rec.results)]

\* C13: a failed write of the watermark does not fail the export: the report
\* has been written and stays, the result carries no error and the number of
\* sessions of the report, the process does not exit with an error, and the
\* state file is left as it was.
C13_SaveFailureDoesNotFailExport ==
    [][inv.pc = "save" /\ inv' # inv /\ ~inv'.saved =>
          /\ reports # <<>>
          /\ reports' = reports
          /\ LastResult(inv').error = ""
          /\ LastResult(inv').sessions = Len(reports[Len(reports)].sessions)
          /\ Len(inv'.results) = Len(inv.results) + 1
          /\ inv'.pc = "done" => inv'.exitCode = 0
          /\ stateFile' = stateFile]_vars

\* C13 witness: an export of at least one session has ended with exit code 0
\* although its watermark write failed; the legacy state file it found is
\* still there.
C13_Witness ==
    /\ inv.pc = "done"
    /\ inv.saveCalls = 1
    /\ ~inv.saved
    /\ inv.exitCode = 0
    /\ LastResult(inv).error = ""
    /\ LastResult(inv).sessions > 0
    /\ reports # <<>>
    /\ stateFile = LegacyFile(Tick)

\* The invocation that starts asks for a profile that is not configured, or
\* for all profiles when none is configured.
StartsWithoutProfile ==
    /\ inv'.runs # inv.runs
    /\ \/ inv'.mode = "profile" /\ inv'.requested \notin ConfiguredNames(config)
       \/ inv'.mode = "all" /\ ConfiguredNames(config) = {}

\* C14: an invocation that asks for a profile that is not configured, or for
\* all profiles when none is configured, ends at once with a non-zero exit,
\* has written no report, has made no watermark write and leaves the state
\* file unchanged.
C14_ProfileErrorsAbort ==
    [][StartsWithoutProfile =>
          /\ inv'.pc = "done"
          /\ inv'.exitCode # 0
          /\ reports' = <<>>
          /\ inv'.results = <<>>
          /\ inv'.saveCalls = 0
          /\ stateFile' = stateFile]_vars

\* C14 witness: after an earlier export saved a watermark, --run-exports with
\* no profile configured has ended with exit code 1.
C14_Witness ==
    /\ inv.pc = "done"
    /\ inv.mode = "all"
    /\ config.exports = <<>>
    /\ inv.exitCode = 1
    /\ inv.runs = 2
    /\ stateFile.kind = "keyed"
    /\ reports = <<>>

\* What the invocation rec exports from the lines when no watermark filters
\* them: every line its date range and its repository filter accept.
AllMatching(rec, lines) ==
    LET parsed == ParseEntries(lines, rec.from, rec.to, Null)
    IN  IF rec.mode = "adhoc"
        THEN FilterLegacy(parsed, rec.all, rec.repo, CurrentProject)
        ELSE FilterRunExport(parsed, rec.all, rec.repositories, rec.repo)

\* C21: a missing or unparsable watermark file never blocks an export: the
\* read of an incremental run returned absent (null), the run then applies
\* no watermark filter, so that with a history file present it exports every
\* matching event, and the report is written.
C21_WatermarkFileNeverBlocks ==
    [][inv.pc = "parse" /\ inv.useNew /\ stateFile.kind \in {"absent", "corrupt"}
          /\ inv' # inv =>
             /\ inv.lastExportTime = Null
             /\ history.exists =>
                   /\ inv'.pc = "save"
                   /\ inv'.filtered = AllMatching(inv, history.lines)
                   /\ reports' = Append(reports,
                                        Report(inv.output, BuildSessions(inv'.filtered)))]_vars

\* C21 witness: an incremental run that found an unparsable state file has
\* written its report, with an event in it, from a history that also holds
\* an event of another repository.
C21_Witness ==
    /\ inv.pc = "save"
    /\ inv.useNew
    /\ stateFile = CorruptFile
    /\ inv.filtered # <<>>
    /\ Len(inv.filtered) < Len(inv.lines)
    /\ reports # <<>>
    /\ reports[Len(reports)].sessions # <<>>

(***************************************************************************)
(* Bulk export of all profiles (SpecExport).                               *)
(***************************************************************************)
\* A --run-exports invocation over a configuration with profiles.
BulkRun == inv.mode = "all" /\ config.exports # <<>>

RECURSIVE SumOfSessions(_)
SumOfSessions(results) ==
    IF results = <<>> THEN 0
    ELSE SumOfSessions(SubSeq(results, 1, Len(results) - 1)) + results[Len(results)].sessions

\* The results runExport returned without an error.
Exported(results) == SelectSeq(results, LAMBDA r : r.error = "")

\* The profiles run so far are the first ones of the configuration, in its
\* order, once each; the one running is the next, under its own scope key;
\* a finished run has run them all.
RunsInConfigurationOrder ==
    /\ Len(inv.results) <= Len(config.exports)
    /\ \A i \in DOMAIN inv.results : inv.results[i].label = config.exports[i].name
    /\ inv.pc = "done" => Len(inv.results) = Len(config.exports)
    /\ inv.pc # "done" =>
          /\ inv.label = config.exports[Len(inv.results) + 1].name
          /\ inv.stateKey = ProfileKey(inv.label)
          /\ inv.queue = SubSeq(config.exports, Len(inv.results) + 2, Len(config.exports))

\* C22 as stated: a bulk run runs every configured profile once, in
\* configuration order, each under its key profile:<name>; after the run
\* every profile's watermark key has been written, and the grand total is
\* the sum of the per-profile session counts.  The watermark keys are looked
\* at after the runs in which every profile wrote its report.
C22_EveryProfileKeyWritten ==
    BulkRun =>
        /\ RunsInConfigurationOrder
        /\ inv.totalSessions = SumOfSessions(inv.results)
        /\ inv.pc = "done" /\ Exported(inv.results) = inv.results =>
              /\ stateFile.kind = "keyed"
              /\ \A i \in DOMAIN config.exports :
                    ProfileKey(config.exports[i].name) \in DOMAIN stateFile.map

\* C22 amended: a bulk run runs every configured profile once, in
\* configuration order, each under its key profile:<name>; a profile whose
\* run found the history file missing writes no report and no watermark and
\* counts 0 sessions; every other profile makes one watermark write, which
\* when it succeeds leaves the wall-clock time of the write under the
\* profile's key; the grand total is the sum of the per-profile session
\* counts.
C22_BulkRunsEveryProfile ==
    BulkRun =>
        /\ RunsInConfigurationOrder
        /\ inv.totalSessions = SumOfSessions(inv.results)
        /\ inv.saveCalls = Len(Exported(inv.results))
        /\ \A i \in DOMAIN inv.results :
              inv.results[i].error # "" => inv.results[i].sessions = 0
        /\ inv.saveCalls > 0 /\ inv.saved =>
              /\ stateFile.kind = "keyed"
              /\ Lookup(stateFile.map, ProfileKey(LastResult(inv).label)) = inv.savedAt

\* C22 witness: a bulk run over two profiles has ended; each exported one
\* session, the total is 2 and both keys hold a watermark, the first an
\* earlier one than the second.
C22_Witness ==
    /\ BulkRun
    /\ inv.pc = "done"
    /\ Len(inv.results) = 2
    /\ inv.results[1].sessions = 1 /\ inv.results[2].sessions = 1
    /\ inv.totalSessions = 2
    /\ stateFile.kind = "keyed"
    /\ Lookup(stateFile.map, "profile:a") # Null
    /\ Lookup(stateFile.map, "profile:b") = inv.savedAt
    /\ Lookup(stateFile.map, "profile:a") < Lookup(stateFile.map, "profile:b")

(***************************************************************************)
(* SpecRace: two invocations whose calls of saveLastExportTime overlap.    *)
(* A call loads the state file (lines 235-247), then sets its key and      *)
(* writes the whole file back (lines 250-252); the other invocation, a     *)
(* process of its own, may run between the two file accesses.              *)
(***************************************************************************)
WriterIds == {"p", "q"}

IdleWriter ==
    [pc |-> "idle", key |-> "", timestamp |-> Null, seen |-> AbsentFile,
     loaded |-> EmptyMap, ok |-> FALSE]

\* Mutant: the write merges the key into what the file holds by then.
WriteBackMerging(current, loaded, key, timestamp) ==
    KeyedFile(SetKey(LoadedMap(current), key, timestamp))

\* state.lastExportTime[repoKey] = timestamp and fs.writeFileSync: the file
\* content is replaced by the state loaded earlier with the key set,
\* whatever the file holds by then.
WriteBack(current, loaded, key, timestamp) ==
    KeyedFile(SetKey(loaded, key, timestamp))

InitRace ==
    /\ stateFile \in {AbsentFile, CorruptFile, LegacyFile(1), KeyedFile([k \in {"app"} |-> 1])}
    /\ writers = [p \in WriterIds |-> IdleWriter]
    /\ lastOp = NoOp
    /\ entries = <<>>
    /\ sessions = <<>>
    /\ built = FALSE
    /\ history = NoHistory
    /\ clock = 0
    /\ config = NoConfig
    /\ inv = IdleInv
    /\ reports = <<>>
    /\ arg = NoCall
    /\ ret = NoCall

\* An invocation reaches saveLastExportTime(stateKey, Date.now()).
CallSave(p) ==
    /\ writers[p].pc = "idle"
    /\ \E k \in ScopeKeys, t \in Stamps :
          writers' = [writers EXCEPT ![p] = [@ EXCEPT !.pc = "load", !.key = k,
                                                      !.timestamp = t]]
    /\ UNCHANGED <<entries, sessions, built, stateFile, lastOp, history, clock, config, inv,
                   reports, arg, ret>>

\* It reads and parses the state file; a parse failure ends the call.
LoadState(p) ==
    /\ writers[p].pc = "load"
    /\ writers' = [writers EXCEPT ![p] =
                      IF stateFile.kind = "corrupt"
                      THEN [@ EXCEPT !.pc = "done", !.seen = stateFile, !.ok = FALSE]
                      ELSE [@ EXCEPT !.pc = "write", !.seen = stateFile,
                                     !.loaded = LoadedMap(stateFile)]]
    /\ UNCHANGED <<entries, sessions, built, stateFile, lastOp, history, clock, config, inv,
                   reports, arg, ret>>

\* It writes the file back; the write may fail.
WriteState(p) ==
    /\ writers[p].pc = "write"
    /\ \E writable \in BOOLEAN :
          /\ stateFile' = IF writable
                          THEN WriteBack(stateFile, writers[p].loaded, writers[p].key,
                                         writers[p].timestamp)
                          ELSE stateFile
          /\ writers' = [writers EXCEPT ![p] = [@ EXCEPT !.pc = "done", !.ok = writable]]
    /\ UNCHANGED <<entries, sessions, built, lastOp, history, clock, config, inv, reports,
                   arg, ret>>

NextRace == \E p \in WriterIds : CallSave(p) \/ LoadState(p) \/ WriteState(p)

SpecRace == InitRace /\ [][NextRace]_vars

\* Writer p completes a successful write in this step.
Writes(p) == writers[p].pc = "write" /\ writers'[p].pc = "done" /\ writers'[p].ok

\* Writer q has written, from the same state of the file that p loaded.
WroteFromSameState(q, p) ==
    /\ writers[q].pc = "done" /\ writers[q].ok
    /\ writers[q].seen = writers[p].seen

\* C29: the watermark write is a read-modify-write of the whole state file
\* that is not atomic: a write persists the state its invocation loaded with
\* its own key set, whatever was written in between; so when two
\* invocations both load the state and then both write back, the watermark
\* written first is lost from the persisted state (its key holds what it
\* held before both), also when the two write different scope keys; a call
\* that nothing interleaves with persists what saveLastExportTime gives.
C29_NonAtomicWrite ==
    [][\A p \in WriterIds :
          Writes(p) =>
             LET w == writers[p]
             IN  /\ stateFile' = KeyedFile(SetKey(w.loaded, w.key, w.timestamp))
                 /\ \A q \in WriterIds \ {p} :
                       WroteFromSameState(q, p) /\ writers[q].key # w.key =>
                          /\ OwnWatermark(stateFile, writers[q].key) = writers[q].timestamp
                          /\ OwnWatermark(stateFile', writers[q].key)
                                = Lookup(LoadedMap(w.seen), writers[q].key)
                 /\ stateFile = w.seen =>
                       stateFile' = saveLastExportTime(stateFile, w.key, w.timestamp, TRUE)]_vars

\* C29 witness: two invocations have both written successfully, under
\* different keys; the key of one of them is not in the persisted state.
C29_Witness ==
    /\ \A p \in WriterIds : writers[p].pc = "done" /\ writers[p].ok
    /\ writers["p"].key # writers["q"].key
    /\ writers["p"].seen = writers["q"].seen
    /\ stateFile.kind = "keyed"
    /\ \E p \in WriterIds : writers[p].key \notin DOMAIN stateFile.map

(***************************************************************************)
(* SpecWindow: consecutive runs of the single-export mode over a history   *)
(* that grows while they run, the reports of all runs kept on record.      *)
(***************************************************************************)
InitWindow ==
    /\ history = [exists |-> TRUE, lines |-> <<>>]
    /\ stateFile \in {AbsentFile, LegacyFile(Tick)}
    /\ config = NoConfig
    /\ clock = Tick
    /\ inv = IdleInv
    /\ reports = <<>>
    /\ writers = NoWriters
    /\ arg = NoCall
    /\ ret = NoCall
    /\ lastOp = NoOp
    /\ entries = <<>>
    /\ sessions = <<>>
    /\ built = FALSE

\* Legacy single-export mode, lines 810-827, with or without --all and --new.
StartRun ==
    /\ CanStart
    /\ \E all \in BOOLEAN, useNew \in BOOLEAN :
          LET key == repoKey(all, NoRepo, CurrentProject)
          IN  inv' = [Fresh("adhoc", useNew) EXCEPT
                         !.pc = "parse",
                         !.all = all,
                         !.stateKey = key,
                         !.output = "claude-sessions.csv",
                         !.lastExportTime = IF useNew
                                            THEN getLastExportTime(stateFile, key)
                                            ELSE Null]
    /\ UNCHANGED <<writers, entries, sessions, built, stateFile, lastOp, history, clock, config,
                   reports, arg, ret>>

NextWindow ==
    \/ AppendEvent
    \/ ClockTick
    \/ StartRun
    \/ ParseAndReport
    \/ SaveExportTime

SpecWindow == InitWindow /\ [][NextWindow]_vars

\* The event of the line is in the report: one of its sessions holds the
\* line's message.
InReport(line, report) ==
    \E i \in DOMAIN report.sessions : line.display \in Range(report.sessions[i].messages)

\* The lines appended to the history since the running invocation read it.
AppendedSinceRead ==
    {history.lines[i] : i \in (Len(inv.lines) + 1)..Len(history.lines)}

\* C30: the watermark is the wall-clock time of the save, after the log was
\* read.  An event appended to the log between the read and a successful
\* save has a timestamp <= the watermark written, is not in the report of
\* that run, and is excluded by the watermark test under the watermark the
\* scope then has; the watermark of a scope never goes back; and an
\* incremental run exports no event stamped at or before the watermark it
\* read.  So every later incremental run of the scope excludes the event.
C30_EventInWindowIsSkipped ==
    /\ [][inv.pc = "save" /\ inv' # inv /\ inv'.saved =>
            \A line \in AppendedSinceRead :
               /\ line.timestamp <= getLastExportTime(stateFile', inv.stateKey)
               /\ ~InReport(line, reports[Len(reports)])
               /\ ~KeepsLine(line, Null, Null, getLastExportTime(stateFile', inv.stateKey))]_vars
    /\ [][\A k \in {"_all", "App"} :
            OwnWatermark(stateFile, k) # Null =>
               OwnWatermark(stateFile', k) >= OwnWatermark(stateFile, k)]_vars
    /\ [](inv.pc \in {"save", "done"} /\ inv.useNew /\ Truthy(inv.lastExportTime) =>
            \A i \in DOMAIN inv.lines :
               inv.lines[i].timestamp <= inv.lastExportTime =>
                  ~InReport(inv.lines[i], reports[Len(reports)]))

\* C30 witness: two runs of one scope have ended, the second incremental;
\* the history holds an event stamped before the watermark the second run
\* read, which is in the report of neither run.
C30_Witness ==
    /\ inv.pc = "done"
    /\ inv.runs = 2
    /\ inv.useNew
    /\ inv.all
    /\ Len(reports) = 2
    /\ stateFile.kind = "keyed" /\ DOMAIN stateFile.map = {"_all"}
    /\ \E i \in DOMAIN inv.lines :
          /\ inv.lines[i].timestamp < inv.lastExportTime
          /\ \A r \in DOMAIN reports : ~InReport(inv.lines[i], reports[r])

(***************************************************************************)
(* SpecQuiet: consecutive runs of the single-export mode, from the first   *)
(* use on (no state file), over a history that grows only between runs;    *)
(* a run may be given --from, and the reports of all runs are on record.   *)
(***************************************************************************)
\* The values of --from: none, or the day that begins at the second tick.
FromDates == {Null, 2 * Tick}

InitQuiet ==
    /\ history = [exists |-> TRUE, lines |-> <<>>]
    /\ stateFile = AbsentFile
    /\ config = NoConfig
    /\ clock = Tick
    /\ inv = IdleInv
    /\ reports = <<>>
    /\ writers = NoWriters
    /\ arg = NoCall
    /\ ret = NoCall
    /\ lastOp = NoOp
    /\ entries = <<>>
    /\ sessions = <<>>
    /\ built = FALSE

\* A prompt is appended while no export runs.
AppendBetweenRuns ==
    /\ inv.pc \in {"idle", "done"}
    /\ AppendEvent

\* Legacy single-export mode, lines 810-827, with or without --all, --new
\* and --from (lines 58-59).
StartRunFrom ==
    /\ CanStart
    /\ \E all \in BOOLEAN, useNew \in BOOLEAN, from \in FromDates :
          LET key == repoKey(all, NoRepo, CurrentProject)
          IN  inv' = [Fresh("adhoc", useNew) EXCEPT
                         !.pc = "parse",
                         !.all = all,
                         !.from = from,
                         !.stateKey = key,
                         !.output = "claude-sessions.csv",
                         !.lastExportTime = IF useNew
                                            THEN getLastExportTime(stateFile, key)
                                            ELSE Null]
    /\ UNCHANGED <<writers, entries, sessions, built, stateFile, lastOp, history, clock, config,
                   reports, arg, ret>>

NextQuiet ==
    \/ AppendBetweenRuns
    \/ ClockTick
    \/ StartRunFrom
    \/ ParseAndReport
    \/ SaveExportTime

SpecQuiet == InitQuiet /\ [][NextQuiet]_vars

\* The line passes the repository filter of the running invocation.
MatchesScope(line) ==
    FilterLegacy(<<Entry(line.timestamp, line.project, MessageOf(line.display))>>,
                 inv.all, inv.repo, CurrentProject) # <<>>

\* The line is inside the date range of the running invocation.
InDateRange(line) ==
    /\ ~(inv.from # Null /\ line.timestamp < inv.from)
    /\ ~(inv.to # Null /\ line.timestamp > inv.to)

\* C32 (as stated): no silent loss across runs.  Over a log that grows only
\* between runs, an incremental run of a scope has in its report every event
\* of the log that matches the scope's repository filter, is inside the
\* run's date range and was exported by no earlier run of the scope: here,
\* an event that is in the report of no earlier run at all.
C32_NoSilentLoss ==
    inv.pc \in {"save", "done"} /\ inv.useNew =>
        \A i \in DOMAIN inv.lines :
           /\ MatchesScope(inv.lines[i])
           /\ InDateRange(inv.lines[i])
           /\ \A r \in 1..(Len(reports) - 1) : ~InReport(inv.lines[i], reports[r])
           => InReport(inv.lines[i], reports[Len(reports)])

(***************************************************************************)
(* SpecIncremental: consecutive incremental runs of the single-export mode *)
(* for one scope key, over a history that grows at any time; the state     *)
(* file can be parsed and written, and the reports of all runs are on      *)
(* record.                                                                 *)
(***************************************************************************)
InitIncremental ==
    /\ history = [exists |-> TRUE, lines |-> <<>>]
    /\ stateFile \in {AbsentFile, LegacyFile(Tick), KeyedFile([k \in {"_all"} |-> Tick])}
    /\ config = NoConfig
    /\ clock = Tick
    /\ inv = IdleInv
    /\ reports = <<>>
    /\ writers = NoWriters
    /\ arg = NoCall
    /\ ret = NoCall
    /\ lastOp = NoOp
    /\ entries = <<>>
    /\ sessions = <<>>
    /\ built = FALSE

\* Variant: the run reads the watermark of the global key, whatever its scope.
StartIncrementalReadingGlobalKey ==
    /\ CanStart
    /\ \E all \in {a \in BOOLEAN : inv.runs = 0 \/ a = inv.all} :
          inv' = [Fresh("adhoc", TRUE) EXCEPT
                     !.pc = "parse",
                     !.all = all,
                     !.stateKey = repoKey(all, NoRepo, CurrentProject),
                     !.output = "claude-sessions.csv",
                     !.lastExportTime = getLastExportTime(stateFile, "_all")]
    /\ UNCHANGED <<writers, entries, sessions, built, stateFile, lastOp, history, clock, config,
                   reports, arg, ret>>

\* Legacy single-export mode with --new, lines 810-827; every run has the
\* scope (--all or the invoking directory) of the run before it.
StartIncremental ==
    /\ CanStart
    /\ \E all \in {a \in BOOLEAN : inv.runs = 0 \/ a = inv.all} :
          LET key == repoKey(all, NoRepo, CurrentProject)
          IN  inv' = [Fresh("adhoc", TRUE) EXCEPT
                         !.pc = "parse",
                         !.all = all,
                         !.stateKey = key,
                         !.output = "claude-sessions.csv",
                         !.lastExportTime = getLastExportTime(stateFile, key)]
    /\ UNCHANGED <<writers, entries, sessions, built, stateFile, lastOp, history, clock, config,
                   reports, arg, ret>>

\* The save with a writable state file.
SaveWritable == SaveExportTimeWhen(TRUE)

NextIncremental ==
    \/ AppendEvent
    \/ ClockTick
    \/ StartIncremental
    \/ ParseAndReport
    \/ SaveWritable

SpecIncremental == InitIncremental /\ [][NextIncremental]_vars

\* C33: no double export.  In a sequence of non-overlapping incremental
\* runs of one scope key whose watermark writes succeed, under a clock that
\* never goes back and with every event stamped no later than the time of
\* the run that reads it, no event is in the reports of two runs.
C33_NoDoubleExport ==
    \A r1, r2 \in DOMAIN reports :
       r1 < r2 =>
          \A i \in DOMAIN history.lines :
             ~(InReport(history.lines[i], reports[r1]) /\ InReport(history.lines[i], reports[r2]))

\* C33 witness: two runs have ended; the first exported an event the second
\* read again and left out, and the second exported a later event.
C33_Witness ==
    /\ inv.pc = "done"
    /\ Len(reports) = 2
    /\ \E i, j \in DOMAIN inv.lines :
          /\ InReport(inv.lines[i], reports[1]) /\ ~InReport(inv.lines[i], reports[2])
          /\ InReport(inv.lines[j], reports[2]) /\ ~InReport(inv.lines[j], reports[1])

(***************************************************************************)
(* SpecRecover: runs of the single-export mode with a writable state file  *)
(* that holds, before the first run, any kind of content.                  *)
(***************************************************************************)
InitRecover ==
    /\ history = [exists |-> TRUE, lines |-> <<>>]
    /\ stateFile \in {AbsentFile, CorruptFile, OtherFile, LegacyFile(Tick),
                       KeyedFile([k \in {"_all"} |-> Tick]),
                       KeyedFile([k \in {"App", "lib"} |-> Tick])}
    /\ config = NoConfig
    /\ clock = Tick
    /\ inv = IdleInv
    /\ reports = <<>>
    /\ writers = NoWriters
    /\ arg = NoCall
    /\ ret = NoCall
    /\ lastOp = NoOp
    /\ entries = <<>>
    /\ sessions = <<>>
    /\ built = FALSE

NextRecover ==
    \/ AppendEvent
    \/ ClockTick
    \/ StartRun
    \/ ParseAndReport
    \/ SaveWritable

SpecRecover == InitRecover /\ [][NextRecover]_vars

\* C34 (as stated): the watermark store recovers from any previous content.
\* After an invocation that wrote its report and made its save with a
\* writable state file, read(scopeKey) returns the time of that save and
\* the state file holds a keyed map, whatever it held before.
C34_StoreRecovers ==
    inv.pc = "done" /\ inv.saveCalls = 1 =>
        /\ getLastExportTime(stateFile, inv.stateKey) = inv.savedAt
        /\ stateFile.kind = "keyed"

(***************************************************************************)
(* SpecFilter: the repository filter of one invocation, applied to every   *)
(* list of at most MaxFiltered parsed entries.  A profile invocation takes *)
(* its repository list from the profile; --all and --repo may stand on     *)
(* any command line.                                                       *)
(***************************************************************************)
MaxFiltered == 2    \* entries handed to the repository filter

RepoOptions == {NoRepo, "App", "lib"}

ProfileLists == {<<>>, <<"App">>, <<"lib", "app">>}

FilterCall(profile, repositories, all, repo, es) ==
    [fn |-> "filter", profile |-> profile, repositories |-> repositories,
     all |-> all, repo |-> repo, es |-> es]

\* The filter an invocation applies: runExportProfile hands runExport the
\* profile's list, all = (the list is empty) and no repo (lines 735-746);
\* the legacy mode reads options.all and options.repo (lines 880-892).
FilteredEntriesLegacyRepoFirst(call) ==
    IF call.profile
    THEN FilterRunExport(call.es, Len(call.repositories) = 0, call.repositories, NoRepo)
    ELSE FilterLegacy(call.es, call.all /\ call.repo = NoRepo, call.repo, CurrentProject)

FilteredEntries(call) ==
    IF call.profile
    THEN FilterRunExport(call.es, Len(call.repositories) = 0, call.repositories, NoRepo)
    ELSE FilterLegacy(call.es, call.all, call.repo, CurrentProject)

InitFilter ==
    /\ \E n \in 0..MaxFiltered, all \in BOOLEAN, repo \in RepoOptions, profile \in BOOLEAN :
         \E f \in [1..n -> Paths], list \in (IF profile THEN ProfileLists ELSE {<<>>}) :
            arg = FilterCall(profile, list, all, repo,
                             [i \in 1..n |-> Entry(i, f[i], Str("work"))])
    /\ ret = NoCall
    /\ entries = <<>>
    /\ sessions = <<>>
    /\ built = FALSE
    /\ stateFile = AbsentFile
    /\ lastOp = NoOp
    /\ history = NoHistory
    /\ clock = 0
    /\ config = NoConfig
    /\ inv = IdleInv
    /\ reports = <<>>
    /\ writers = NoWriters

ApplyFilter ==
    /\ ret = NoCall
    /\ ret' = [fn |-> "filter", kept |-> FilteredEntries(arg)]
    /\ UNCHANGED <<writers, entries, sessions, built, stateFile, lastOp, history, clock, config, inv,
                   reports, arg>>

NextFilter == ApplyFilter

SpecFilter == InitFilter /\ [][NextFilter]_vars

\* The repository name of an entry, compared without regard to case.
NamedLike(e, name) == toLowerCase(e.project.base) = toLowerCase(name)

InList(e, list) == \E i \in DOMAIN list : NamedLike(e, list[i])

InCurrentProject(e) ==
    /\ toLowerCase(e.project.dir) = toLowerCase(CurrentProject.dir)
    /\ toLowerCase(e.project.base) = toLowerCase(CurrentProject.base)

Filtered == ret # NoCall /\ ret.fn = "filter"

\* The entries of the call that satisfy a test, in their order.
KeptAre(Test(_)) == ret.kept = SelectSeq(arg.es, Test)

\* C11 as stated: a non-empty repository list is applied before a single-repo
\* filter, a single-repo filter before --all (with --repo and --all both
\* given only the named repository's entries are exported), and with none of
\* the three only the entries of the invoking directory's normalized path;
\* names are compared without regard to case on the final path segment.
C11_RepoBeforeAll ==
    Filtered =>
        LET Test(e) ==
                IF arg.profile /\ arg.repositories # <<>> THEN InList(e, arg.repositories)
                ELSE IF arg.repo # NoRepo THEN NamedLike(e, arg.repo)
                ELSE IF arg.all \/ arg.profile THEN TRUE
                ELSE InCurrentProject(e)
        IN  KeptAre(Test)

\* C11 amended: a profile invocation is filtered by the profile's list alone
\* (a non-empty list keeps the entries whose repository is in it, an empty
\* list keeps every entry; --repo and --all are not consulted); an ad-hoc
\* invocation applies --all before --repo (with both given every entry is
\* exported), --repo before the default, and with neither keeps only the
\* entries of the invoking directory's normalized path; names are compared
\* without regard to case on the final path segment.
C11_AllBeforeRepo ==
    Filtered =>
        LET Test(e) ==
                IF arg.profile
                THEN arg.repositories = <<>> \/ InList(e, arg.repositories)
                ELSE IF arg.all THEN TRUE
                ELSE IF arg.repo # NoRepo THEN NamedLike(e, arg.repo)
                ELSE InCurrentProject(e)
        IN  KeptAre(Test)

\* An ad-hoc invocation with --all and --repo lib has been filtered: an entry
\* of another repository is among those kept.
C11_Witness ==
    /\ Filtered
    /\ ~arg.profile /\ arg.all /\ arg.repo = "lib"
    /\ \E i \in DOMAIN ret.kept : ~NamedLike(ret.kept[i], "lib")
    /\ \E i \in DOMAIN arg.es : NamedLike(arg.es[i], "lib")

(***************************************************************************)
(* SpecClassify: the rows of a report, from history lines to sessions,     *)
(* topics and descriptions, for every history of at most MaxMessages       *)
(* lines of one repository.  Lines are either one millisecond or more than *)
(* the session gap apart.                                                  *)
(***************************************************************************)
MaxMessages == 2    \* lines of the history handed to the classifier

\* A message of more than 80 characters.
LongMessage ==
    "what about something that goes on and on and on and on and on and on and on and on"

DisplayValues ==
    { Undefined, Num("0"), Num("12345"), Str(""), Str("ok"), Str(" Go ahead "),
      Str("Fix the login bug"), Str("please fix the thing now"),
      Str("look at the login page"), Str("optimize the speed here"),
      Str("Please   look at  this thing"), Str(LongMessage) }

\* One row of outputData: lines 656-672 (legacy mode: lines 940-956).
OutputRow(s) ==
    LET topics == extractTopics(s.messages)
        durationMs == calculateDurationMs(s.startTime, s.endTime)
    IN  [session |-> s, topics |-> topics,
         description |-> createDescription(s.messages, topics),
         durationMs |-> durationMs,
         durationMinutes |-> parseInt(formatDurationMinutes(durationMs)),
         messageCount |-> Len(s.messages)]

\* sessions.map(...) over the sessions built from the lines.
OutputData(lines) ==
    LET grouped == BuildSessions(ParseEntries(lines, Null, Null, Null))
    IN  [i \in DOMAIN grouped |-> OutputRow(grouped[i])]

InitClassify ==
    /\ \E n \in 0..MaxMessages, step \in {1, SESSION_GAP_MS + 1} :
         \E d \in [1..n -> DisplayValues] :
            arg = [fn |-> "describe",
                   lines |-> [i \in 1..n |-> Line(i * step, Path("/w", "app"), d[i])]]
    /\ ret = NoCall
    /\ entries = <<>>
    /\ sessions = <<>>
    /\ built = FALSE
    /\ stateFile = AbsentFile
    /\ lastOp = NoOp
    /\ history = NoHistory
    /\ clock = 0
    /\ config = NoConfig
    /\ inv = IdleInv
    /\ reports = <<>>
    /\ writers = NoWriters

DescribeSessions ==
    /\ ret = NoCall
    /\ ret' = [fn |-> "describe", rows |-> OutputData(arg.lines)]
    /\ UNCHANGED <<writers, entries, sessions, built, stateFile, lastOp, history, clock, config, inv,
                   reports, arg>>

NextClassify == DescribeSessions

SpecClassify == InitClassify /\ [][NextClassify]_vars

Described == ret # NoCall /\ ret.fn = "describe"

\* C15: whatever the accepted lines are (none, lines without a message,
\* lines whose display is a number), the session builder, extractTopics and
\* createDescription throw nothing: every session gets a topic string and a
\* description.
C15_NoExceptionPropagates ==
    Described =>
        \A i \in DOMAIN ret.rows :
            /\ ret.rows[i].topics # ""
            /\ ~ret.rows[i].description.threw
            /\ ret.rows[i].description.value # ""

(***************************************************************************)
(* SpecDescribe: the topics and the description of one session, for every  *)
(* session of at most MaxBatch messages.  The messages are chosen for the  *)
(* rule tables: messages the filter drops (with and without a topic        *)
(* word), messages with action words, area words, topic words, none of     *)
(* them, more of them than a result holds, and a number.                   *)
(***************************************************************************)
MaxBatch == 2       \* messages of the session handed to the classifier

Messages ==
    { Str(""), Str("ok"), Str("fix bug"), Num("12345"),
      Str("Fix the login bug"),
      Str("update the thing today"),
      Str("please fix the thing now"),
      Str("look at the login page"),
      Str("optimize the speed here"),
      Str("Please   look at  this thing"),
      Str(LongMessage),
      Str("fix test add update refactor deploy login database api page"),
      Str("fix add update refactor it"),
      Str("login database api page") }

InitDescribe ==
    /\ \E n \in 1..MaxBatch :
         \E m \in [1..n -> Messages] :
            arg = [fn |-> "row",
                   session |-> GroupEntries([i \in 1..n |-> Entry(i, Path("/w", "app"), m[i])])[1]]
    /\ ret = NoCall
    /\ entries = <<>>
    /\ sessions = <<>>
    /\ built = FALSE
    /\ stateFile = AbsentFile
    /\ lastOp = NoOp
    /\ history = NoHistory
    /\ clock = 0
    /\ config = NoConfig
    /\ inv = IdleInv
    /\ reports = <<>>
    /\ writers = NoWriters

\* The callback of sessions.map on the session.
DescribeSession ==
    /\ ret = NoCall
    /\ ret' = [fn |-> "row", row |-> OutputRow(arg.session)]
    /\ UNCHANGED <<writers, entries, sessions, built, stateFile, lastOp, history, clock, config, inv,
                   reports, arg>>

NextDescribe == DescribeSession

SpecDescribe == InitDescribe /\ [][NextDescribe]_vars

RowMade == ret # NoCall /\ ret.fn = "row"

\* The rules of a table that match the text, by position in the table.
Matching(table, text) ==
    {i \in DOMAIN table : TestPattern(table[i].alternatives, text)}

\* The first n of a set of positions.
FirstOf(positions, n) ==
    {i \in positions : Cardinality({j \in positions : j < i}) < n}

\* The names of the rules at the positions, in table order, joined by sep.
RECURSIVE NamesAt(_, _, _)
NamesAt(table, positions, sep) ==
    IF positions = {} THEN ""
    ELSE LET last == CHOOSE i \in positions : \A j \in positions : j <= i
         IN  IF positions = {last} THEN table[last].name
             ELSE NamesAt(table, positions \ {last}, sep) \o sep \o table[last].name

\* The text the topic rules are tested against: all messages of the session.
FullText == LowerCase(Join(TextsOf(arg.session.messages), " "))

\* The number of tags in a string of tags joined by ', '.
TagCount(tags) ==
    1 + Cardinality({i \in 1..(Len(tags) - 1) : SubSeq(tags, i, i + 1) = ", "})

\* C23: the topics of a message batch are the tags of the matching rules in
\* rule-table order, each once, cut to the first 5 and joined by ', '; when
\* no rule matches they are exactly 'general'; the result holds between 1
\* and 5 tags.
C23_TopicsInTableOrder ==
    RowMade =>
        LET matched == Matching(topicPatterns, FullText)
        IN  /\ ret.row.topics = IF matched = {} THEN "general"
                                ELSE NamesAt(topicPatterns, FirstOf(matched, 5), ", ")
            /\ TagCount(ret.row.topics) \in 1..5
            /\ matched # {} =>
                  TagCount(ret.row.topics) = Cardinality(FirstOf(matched, 5))

\* C23 witness: a session whose text matches seven topic rules has got the
\* first five of them.
C23_Witness ==
    /\ RowMade
    /\ Cardinality(Matching(topicPatterns, FullText)) = 7
    /\ ret.row.topics = "bug-fix, testing, refactoring, feature, deployment"

\* The messages of the session that the filter phase keeps.
Survivors ==
    TextsOf(SelectSeq(arg.session.messages, LAMBDA m : Meaningful(m) = "keep"))

\* The filter phase went through every message without an exception.
FilterCompleted == \A i \in DOMAIN arg.session.messages : Meaningful(arg.session.messages[i]) # "throw"

\* C24: when no message survives the filter phase the description is
\* 'Development: <topics>' if the topics are not the fallback 'general', and
\* 'Development work' otherwise, in particular when the topics are 'general'.
C24_NothingSurvives ==
    RowMade /\ FilterCompleted /\ Survivors = <<>> =>
        ret.row.description =
            Returned(IF ret.row.topics # "general"
                     THEN "Development: " \o ret.row.topics
                     ELSE "Development work")

\* The text the action and area rules are tested against.
SurvivingText == LowerCase(Join(Survivors, " "))

\* The first surviving message without its leading filler, its white space
\* collapsed and trimmed, its first letter a capital.
Cleaned == Capitalize(Trim(CollapseSpaces(StripFiller(Survivors[1]))))

\* C25: with at least one surviving message the description is, in strict
\* priority: (1) actions and areas found: up to 2 actions joined by ' & ',
\* then ': ', then up to 3 areas joined by ', '; (2) only actions: up to 3
\* actions joined by ', ', with ' (<topics>)' appended iff the topics are not
\* 'general'; (3) only areas: 'Development: ' and up to 3 areas; (4) neither
\* but topics other than 'general': 'Development: <topics>'; (5) otherwise
\* the first surviving message, cleaned, of at most 80 characters.  One tier
\* alone makes the result.
C25_TiersInPriority ==
    RowMade /\ FilterCompleted /\ Survivors # <<>> =>
        LET actions == Matching(actionPatterns, SurvivingText)
            areas == Matching(featurePatterns, SurvivingText)
            topics == ret.row.topics
            value == ret.row.description.value
        IN  /\ ~ret.row.description.threw
            /\ IF actions # {} /\ areas # {}
               THEN value = NamesAt(actionPatterns, FirstOf(actions, 2), " & ") \o ": "
                               \o NamesAt(featurePatterns, FirstOf(areas, 3), ", ")
               ELSE IF actions # {}
               THEN value = NamesAt(actionPatterns, FirstOf(actions, 3), ", ")
                               \o (IF topics # "general" THEN " (" \o topics \o ")" ELSE "")
               ELSE IF areas # {}
               THEN value = "Development: " \o NamesAt(featurePatterns, FirstOf(areas, 3), ", ")
               ELSE IF topics # "general"
               THEN value = "Development: " \o topics
               ELSE /\ Len(value) <= 80
                    /\ value = IF Len(Cleaned) <= 80 THEN Cleaned
                               ELSE SubSeq(Cleaned, 1, 77) \o "..."

\* C25 witness: a session of two surviving messages with four action words
\* and four area words between them has got two actions and three areas.
C25_Witness ==
    /\ RowMade
    /\ Len(Survivors) = 2
    /\ Cardinality(Matching(actionPatterns, SurvivingText)) >= 4
    /\ Cardinality(Matching(featurePatterns, SurvivingText)) >= 4
    /\ ret.row.description =
          Returned("Bug fixes & Feature development: authentication, database, API")

(***************************************************************************)
(* SpecInsert: one session described twice, as it is and with one more     *)
(* message that the filter phase of createDescription discards, at every   *)
(* place of the session.  The session has at most MaxKept messages before  *)
(* the insertion.                                                          *)
(***************************************************************************)
MaxKept == 2        \* messages of the session before the insertion

KeptMessages ==
    { Str("Fix the login bug"), Str("please clean"), Str("up the mess now"),
      Str("optimize the speed here") }

\* Empty, in the stoplist, in the stoplist with a topic word, and shorter
\* than 10 characters with topic words.
DiscardedMessages == { Str(""), Str("ok"), Str("/init"), Str("fix bug") }

\* The session the loop builds from the messages, a millisecond apart.
SessionOfMessages(messages) ==
    GroupEntries([i \in DOMAIN messages |-> Entry(i, Path("/w", "app"), messages[i])])[1]

InsertAt(seq, place, x) == SubSeq(seq, 1, place - 1) \o <<x>> \o SubSeq(seq, place, Len(seq))

InitInsert ==
    /\ \E n \in 1..MaxKept :
         \E m \in [1..n -> KeptMessages], extra \in DiscardedMessages, place \in 1..(n + 1) :
            arg = [fn |-> "insert", without |-> SessionOfMessages(m),
                   with |-> SessionOfMessages(InsertAt(m, place, extra)),
                   extra |-> extra, place |-> place]
    /\ ret = NoCall
    /\ entries = <<>>
    /\ sessions = <<>>
    /\ built = FALSE
    /\ stateFile = AbsentFile
    /\ lastOp = NoOp
    /\ history = NoHistory
    /\ clock = 0
    /\ config = NoConfig
    /\ inv = IdleInv
    /\ reports = <<>>
    /\ writers = NoWriters

\* The callback of sessions.map on each of the two sessions.
DescribeBoth ==
    /\ ret = NoCall
    /\ ret' = [fn |-> "insert", without |-> OutputRow(arg.without), with |-> OutputRow(arg.with)]
    /\ UNCHANGED <<writers, entries, sessions, built, stateFile, lastOp, history, clock, config, inv,
                   reports, arg>>

NextInsert == DescribeBoth

SpecInsert == InitInsert /\ [][NextInsert]_vars

BothDescribed == ret # NoCall /\ ret.fn = "insert"

\* C26 as stated: a message the filter phase discards contributes nothing to
\* classification: the session with it and the session without it have the
\* same topics and the same description.
C26_DiscardedContributesNothing ==
    BothDescribed =>
        /\ ret.with.topics = ret.without.topics
        /\ ret.with.description = ret.without.description

\* The topics of a list of messages, from the rules matching its full text.
TopicsOfText(messages) ==
    LET matched == Matching(topicPatterns, LowerCase(Join(TextsOf(messages), " ")))
    IN  IF matched = {} THEN "general" ELSE NamesAt(topicPatterns, FirstOf(matched, 5), ", ")

\* C26 amended: a message the filter phase discards contributes nothing to
\* the messages the description is composed from: under one topics string
\* the session with it and the session without it get the same description,
\* so that the two descriptions are equal whenever the two topics strings
\* are.  The topics are extracted from the text of all messages, the
\* discarded ones included, and may differ between the two sessions.
C26_DiscardedReachesTopicsOnly ==
    BothDescribed =>
        /\ \A topics \in {ret.with.topics, ret.without.topics} :
              createDescription(arg.with.messages, topics)
                 = createDescription(arg.without.messages, topics)
        /\ ret.with.topics = ret.without.topics =>
              ret.with.description = ret.without.description
        /\ ret.with.topics = TopicsOfText(arg.with.messages)
        /\ ret.without.topics = TopicsOfText(arg.without.messages)

\* C26 witness: the discarded message 'fix bug' has been added to a session
\* that had the topic performance alone; the session with it has the topic
\* bug-fix too, and another description.
C26_Witness ==
    /\ BothDescribed
    /\ arg.extra = Str("fix bug")
    /\ Meaningful(arg.extra) = "drop"
    /\ ret.without.topics = "performance"
    /\ ret.with.topics = "bug-fix, performance"
    /\ ret.without.description = Returned("Development: performance")
    /\ ret.with.description = Returned("Development: bug-fix, performance")

(***************************************************************************)
(* SpecDuration: the rows of a report for every history of at most         *)
(* MaxTimed lines stamped at four moments: 10 minutes, 10 minutes and a    *)
(* half, and more than the session gap apart, in two spellings of one      *)
(* project and in another project.  The message of a line names its place  *)
(* in the history.                                                         *)
(***************************************************************************)
MaxTimed == 3       \* lines of the history

Minute == 60 * 1000

Moments == {Minute, 11 * Minute, 11 * Minute + 30 * 1000, 42 * Minute}

TimedPaths == {Path("/w", "app"), Path("/W", "App"), Path("/w", "lib")}

InitDuration ==
    /\ \E n \in 0..MaxTimed :
         \E f \in [1..n -> Moments \X TimedPaths] :
            arg = [fn |-> "describe",
                   lines |-> [i \in 1..n |-> Line(f[i][1], f[i][2], Str(MessageIds[i]))]]
    /\ ret = NoCall
    /\ entries = <<>>
    /\ sessions = <<>>
    /\ built = FALSE
    /\ stateFile = AbsentFile
    /\ lastOp = NoOp
    /\ history = NoHistory
    /\ clock = 0
    /\ config = NoConfig
    /\ inv = IdleInv
    /\ reports = <<>>
    /\ writers = NoWriters

NextDuration == DescribeSessions

SpecDuration == InitDuration /\ [][NextDuration]_vars

\* The timestamps of the lines whose messages the session holds.
StampsIn(session) ==
    {arg.lines[i].timestamp : i \in {j \in DOMAIN arg.lines :
                                       arg.lines[j].display \in Range(session.messages)}}

\* The timestamp of the line whose message is m.
StampOf(m) == (CHOOSE line \in Range(arg.lines) : line.display = m).timestamp

\* C27: no events give no session; every session holds at least one
\* message, starts at the timestamp of its first event and ends at the
\* timestamp of its last, so that startTime <= endTime and the duration
\* reported, endTime - startTime, is >= 0; a session of one event has
\* startTime = endTime and duration 0; and two events 10 minutes apart in
\* one project give one session of 10 minutes.
C27_SessionShape ==
    Described =>
        /\ arg.lines = <<>> => ret.rows = <<>>
        /\ \A i \in DOMAIN ret.rows :
              LET row == ret.rows[i]
                  s == row.session
              IN  /\ Len(s.messages) >= 1
                  /\ row.messageCount = Len(s.messages)
                  /\ s.startTime = StampOf(s.messages[1])
                  /\ s.endTime = StampOf(s.messages[Len(s.messages)])
                  /\ \A t \in StampsIn(s) : s.startTime <= t /\ t <= s.endTime
                  /\ s.startTime <= s.endTime
                  /\ row.durationMs = s.endTime - s.startTime
                  /\ row.durationMs >= 0
                  /\ row.durationMinutes >= 0
                  /\ Len(s.messages) = 1 =>
                        s.startTime = s.endTime /\ row.durationMs = 0 /\ row.durationMinutes = 0
        /\ /\ Len(arg.lines) = 2
           /\ normalizeProjectPath(arg.lines[1].project)
                 = normalizeProjectPath(arg.lines[2].project)
           /\ arg.lines[2].timestamp - arg.lines[1].timestamp \in {10 * Minute, 0 - 10 * Minute}
           => /\ Len(ret.rows) = 1
              /\ ret.rows[1].durationMs = 10 * Minute
              /\ ret.rows[1].durationMinutes = 10

\* C27 witness: two events given out of time order, 10 minutes apart, in two
\* spellings of one project, have made one session of 10 minutes.
C27_Witness ==
    /\ Described
    /\ Len(arg.lines) = 2
    /\ arg.lines[1].timestamp = arg.lines[2].timestamp + 10 * Minute
    /\ arg.lines[1].project # arg.lines[2].project
    /\ Len(ret.rows) = 1
    /\ ret.rows[1].session.messages = <<Str("m2"), Str("m1")>>
    /\ ret.rows[1].durationMinutes = 10

(***************************************************************************)
(* SpecEscape: a field of at most MaxField characters, written as the      *)
(* first field of one row and the last field of the next, in CSV and in    *)
(* TSV.                                                                    *)
(***************************************************************************)
MaxField == 3       \* characters of an escaped field

FieldChars == {"a", " ", ",", "\"", "\t", "\r", "\n"}

\* All strings over FieldChars of length n.
RECURSIVE FieldsOfLength(_)
FieldsOfLength(n) ==
    IF n = 0 THEN {""}
    ELSE {f \o c : f \in FieldsOfLength(n - 1), c \in FieldChars}

\* The rows written around a field.
RowsAround(field) == << <<field, "z">>, <<"z", field>> >>

InitEscape ==
    /\ \E n \in 0..MaxField : \E f \in FieldsOfLength(n) : arg = [fn |-> "escape", field |-> f]
    /\ ret = NoCall
    /\ entries = <<>>
    /\ sessions = <<>>
    /\ built = FALSE
    /\ stateFile = AbsentFile
    /\ lastOp = NoOp
    /\ history = NoHistory
    /\ clock = 0
    /\ config = NoConfig
    /\ inv = IdleInv
    /\ reports = <<>>
    /\ writers = NoWriters

WriteRows ==
    /\ ret = NoCall
    /\ ret' = [fn |-> "escape",
               csv |-> WriteCSV(RowsAround(arg.field)),
               tsv |-> WriteTSV(RowsAround(arg.field))]
    /\ UNCHANGED <<writers, entries, sessions, built, stateFile, lastOp, history, clock, config, inv,
                   reports, arg>>

NextEscape == WriteRows

SpecEscape == InitEscape /\ [][NextEscape]_vars

Escaped == ret # NoCall /\ ret.fn = "escape"

\* The readers of the two formats: records end at a line feed; CSV fields
\* are separated by commas, a field that opens with a double quote runs to
\* its closing quote and "" inside it is one quote; TSV fields are separated
\* by tabs and know no quoting.
\* mode is "start" at the beginning of a
\* field, "bare" inside an unquoted field, "quoted" inside a quoted field and
\* "closed" after its closing quote.
RECURSIVE ReadFrom(_, _, _, _, _, _, _, _)
ReadFrom(doc, i, sep, quoting, rows, row, field, mode) ==
    IF i > Len(doc) THEN Append(rows, Append(row, field))
    ELSE LET c == CharAt(doc, i)
         IN  IF mode = "quoted"
             THEN IF c # "\""
                  THEN ReadFrom(doc, i + 1, sep, quoting, rows, row, field \o c, "quoted")
                  ELSE IF i < Len(doc) /\ CharAt(doc, i + 1) = "\""
                  THEN ReadFrom(doc, i + 2, sep, quoting, rows, row, field \o "\"", "quoted")
                  ELSE ReadFrom(doc, i + 1, sep, quoting, rows, row, field, "closed")
             ELSE IF c = sep
             THEN ReadFrom(doc, i + 1, sep, quoting, rows, Append(row, field), "", "start")
             ELSE IF c = "\n"
             THEN ReadFrom(doc, i + 1, sep, quoting,
                           Append(rows, Append(row, field)), <<>>, "", "start")
             ELSE IF quoting /\ c = "\"" /\ mode = "start"
             THEN ReadFrom(doc, i + 1, sep, quoting, rows, row, field, "quoted")
             ELSE ReadFrom(doc, i + 1, sep, quoting, rows, row, field \o c, "bare")

ReadCSV(doc) == ReadFrom(doc, 1, ",", TRUE, <<>>, <<>>, "", "start")

ReadTSV(doc) == ReadFrom(doc, 1, "\t", FALSE, <<>>, <<>>, "", "start")


\* The field with each line break (CR LF or LF) turned into one space and,
\* when tabs is TRUE, each tab too; every other character as it was.
RECURSIVE FlattenedFrom(_, _, _)
FlattenedFrom(str, i, tabs) ==
    IF i > Len(str) THEN ""
    ELSE LET c == CharAt(str, i)
             crlf == c = "\r" /\ i < Len(str) /\ CharAt(str, i + 1) = "\n"
         IN  (IF crlf \/ c = "\n" \/ (tabs /\ c = "\t") THEN " " ELSE c)
                \o FlattenedFrom(str, IF crlf THEN i + 2 ELSE i + 1, tabs)

Flattened(str, tabs) == FlattenedFrom(str, 1, tabs)

\* C16 as stated: in CSV and in TSV, reading back the escaped field yields
\* the original with each newline replaced by one space and nothing else
\* changed, in two rows of two columns as written.
C16_RoundTripNewlinesOnly ==
    Escaped =>
        /\ ReadCSV(ret.csv) = RowsAround(Flattened(arg.field, FALSE))
        /\ ReadTSV(ret.tsv) = RowsAround(Flattened(arg.field, FALSE))

\* C16 amended: reading back the escaped field yields, in CSV, the original
\* with each newline replaced by one space and, in TSV, the original with
\* each newline and each tab replaced by one space; nothing else is changed
\* and the rows and columns are those written.
C16_RoundTripUpToFlattening ==
    Escaped =>
        /\ ReadCSV(ret.csv) = RowsAround(Flattened(arg.field, FALSE))
        /\ ReadTSV(ret.tsv) = RowsAround(Flattened(arg.field, TRUE))

\* C16 witness: a field with a double quote, a tab and a newline has been
\* written and read back; the two formats give different fields.
C16_Witness ==
    /\ Escaped
    /\ Includes(arg.field, "\"") /\ Includes(arg.field, "\t") /\ Includes(arg.field, "\n")
    /\ ReadCSV(ret.csv) # ReadTSV(ret.tsv)
    /\ Len(ReadCSV(ret.csv)) = 2 /\ Len(ReadCSV(ret.csv)[1]) = 2

(***************************************************************************)
(* SpecBilling: getMapping for the repository of a session, under every    *)
(* configuration that maps some of two repository names, each to a client  *)
(* and a project of which either may be missing, with or without a         *)
(* default client.                                                         *)
(***************************************************************************)
MappedNames == {"app", "lib"}

MappingValues == [client : {"", "Acme"}, project : {"", "Site"}]

SessionRepositories == {"app", "App", "lib"}

BillingConfig(mappings, defaultClient) ==
    [exports |-> <<>>, mappings |-> mappings, defaultClient |-> defaultClient]

InitBilling ==
    /\ \E names \in SUBSET MappedNames, defaultClient \in {"", "Default"} :
         \E mappings \in [names -> MappingValues] :
            config = BillingConfig(mappings, defaultClient)
    /\ \E repoName \in SessionRepositories : arg = [fn |-> "getMapping", repoName |-> repoName]
    /\ ret = NoCall
    /\ entries = <<>>
    /\ sessions = <<>>
    /\ built = FALSE
    /\ stateFile = AbsentFile
    /\ lastOp = NoOp
    /\ history = NoHistory
    /\ clock = 0
    /\ inv = IdleInv
    /\ reports = <<>>
    /\ writers = NoWriters

LookUpMapping ==
    /\ ret = NoCall
    /\ ret' = [fn |-> "getMapping", mapping |-> getMapping(config, arg.repoName)]
    /\ UNCHANGED <<writers, entries, sessions, built, stateFile, lastOp, history, clock, config, inv,
                   reports, arg>>

NextBilling == LookUpMapping

SpecBilling == InitBilling /\ [][NextBilling]_vars

\* The configuration maps the repository to a non-empty value of the field.
HasField(field) ==
    /\ arg.repoName \in DOMAIN config.mappings
    /\ config.mappings[arg.repoName][field] # ""

\* C17: the client of a session is the mapped client of its repository name
\* when there is a non-empty one, otherwise the default client (empty when
\* none); the project is the mapped project when there is a non-empty one,
\* otherwise the repository name; the lookup leaves the configuration as it
\* was.
C17_BillingLookup ==
    [][ret'.fn = "getMapping" =>
          /\ ret'.mapping.client = IF HasField("client")
                                   THEN config.mappings[arg.repoName].client
                                   ELSE config.defaultClient
          /\ ret'.mapping.project = IF HasField("project")
                                    THEN config.mappings[arg.repoName].project
                                    ELSE arg.repoName
          /\ config' = config]_vars

\* C17 witness: a repository mapped to a project but to no client has been
\* looked up under a configuration with a default client.
C17_Witness ==
    /\ ret.fn = "getMapping"
    /\ HasField("project") /\ ~HasField("client")
    /\ config.defaultClient = "Default"
    /\ ret.mapping = [client |-> "Default", project |-> "Site"]

(***************************************************************************)
(* SpecParse: the parse loop on every history of at most MaxLines lines,   *)
(* with and without the date bounds, the --new option and a stored         *)
(* watermark.  Timestamps lie on both sides of each bound; a line may fail *)
(* to parse or lack its timestamp, its project or its display.             *)
(***************************************************************************)
MaxLines == 2       \* lines of the history handed to the parse loop

FromBound == 2

ToBound == 3

StoredWatermark == 2

ParsedLines ==
    {Line(ts, Path("/w", "app"), Str("work")) : ts \in {Null, 0, 1, 2, 3, 4}}
        \cup {Line(2, NoProject, Str("work")), Line(2, Path("/w", "app"), Undefined),
              Line(2, Path("/w", "app"), Str("")), InvalidLine}

InitParse ==
    /\ \E n \in 0..MaxLines, from \in {Null, FromBound}, to \in {Null, ToBound},
          useNew \in BOOLEAN, stored \in {Null, StoredWatermark} :
         \E lines \in [1..n -> ParsedLines] :
            arg = [fn |-> "parse", lines |-> lines, from |-> from, to |-> to,
                   useNew |-> useNew, stored |-> stored]
    /\ ret = NoCall
    /\ entries = <<>>
    /\ sessions = <<>>
    /\ built = FALSE
    /\ stateFile = AbsentFile
    /\ lastOp = NoOp
    /\ history = NoHistory
    /\ clock = 0
    /\ config = NoConfig
    /\ inv = IdleInv
    /\ reports = <<>>
    /\ writers = NoWriters

\* lastExportTime is read only under --new (lines 553-562), then the loop runs.
ParseHistory ==
    /\ ret = NoCall
    /\ ret' = [fn |-> "parse",
               entries |-> ParseEntries(arg.lines, arg.from, arg.to,
                                        IF arg.useNew THEN arg.stored ELSE Null)]
    /\ UNCHANGED <<writers, entries, sessions, built, stateFile, lastOp, history, clock, config, inv,
                   reports, arg>>

NextParse == ParseHistory

SpecParse == InitParse /\ [][NextParse]_vars

Parsed == ret # NoCall /\ ret.fn = "parse"

\* The line decodes and has a truthy timestamp and a project.
Accepted(line) ==
    line.json /\ line.timestamp \notin {Null, 0} /\ line.project # NoProject

\* The timestamp passes the bounds and the watermark of the call.
InBounds(ts) ==
    /\ arg.from = Null \/ ts >= arg.from
    /\ arg.to = Null \/ ts <= arg.to
    /\ ~arg.useNew \/ arg.stored = Null \/ ts > arg.stored

TimestampsOf(seq) == [i \in DOMAIN seq |-> seq[i].timestamp]

\* C19: of the accepted lines, those kept are exactly the ones with (no from
\* or timestamp >= from) and (no to or timestamp <= to) and (not incremental,
\* or no watermark, or timestamp > watermark); a timestamp equal to a bound
\* is kept, one equal to the watermark dropped.
C19_ParseTimeFilters ==
    Parsed =>
        LET Kept(line) == Accepted(line) /\ InBounds(line.timestamp)
        IN  TimestampsOf(ret.entries) = TimestampsOf(SelectSeq(arg.lines, Kept))

\* C19 witness: an incremental parse with a watermark and both bounds has
\* kept a line stamped at the upper bound and dropped one stamped at the
\* watermark, which is also the lower bound.
C19_Witness ==
    /\ Parsed
    /\ arg.useNew /\ arg.stored = StoredWatermark
    /\ arg.from = FromBound /\ arg.to = ToBound
    /\ \E i \in DOMAIN arg.lines : Accepted(arg.lines[i]) /\ arg.lines[i].timestamp = arg.stored
    /\ TimestampsOf(ret.entries) = <<ToBound>>

\* C20: a line becomes an event only if it decodes and has a truthy
\* timestamp and project; the other lines are skipped, and the events are
\* those the accepted lines give on their own; without bounds every accepted
\* line is an event, with the empty message when it has no display.
C20_BadLinesSkipped ==
    Parsed =>
        LET accepted == SelectSeq(arg.lines, Accepted)
            lastExportTime == IF arg.useNew THEN arg.stored ELSE Null
        IN  /\ ret.entries = ParseEntries(accepted, arg.from, arg.to, lastExportTime)
            /\ Len(ret.entries) <= Len(accepted)
            /\ arg.from = Null /\ arg.to = Null /\ lastExportTime = Null =>
                  ret.entries =
                     [i \in DOMAIN accepted |->
                         Entry(accepted[i].timestamp, accepted[i].project,
                               IF accepted[i].display = Undefined
                               THEN Str("") ELSE accepted[i].display)]

\* C20 witness: a line that does not parse came before an accepted line
\* without display, which became the one event, with the empty message.
C20_Witness ==
    /\ Parsed
    /\ Len(arg.lines) = 2
    /\ ~arg.lines[1].json
    /\ Accepted(arg.lines[2]) /\ arg.lines[2].display = Undefined
    /\ Len(ret.entries) = 1
    /\ ret.entries[1].message = Str("")

====
